---- MODULE Spec2Model ----
(***************************************************************************)
(* emigui: the Region layout cursor (emigui/src/region.rs), the derived    *)
(* input record (emigui/src/types.rs) and the hit test they delegate to.   *)
(*                                                                         *)
(* Lengths are f32 in the source.  Here every length is an integer count   *)
(* of quarter points (Pt(1) = 4), so halves and quarters of a point are    *)
(* exact; a step whose f32 result would not fall on a quarter point is     *)
(* outside the explored inputs (the Exact guards).                         *)
(***************************************************************************)
EXTENDS Integers, Sequences, FiniteSets, TLC

VARIABLES
    style,      \* Style read by every Region: item_spacing, indent, debug_regions
    input,      \* GuiInput of the running frame
    last_raw,   \* RawInput the running frame was derived from
    memory,     \* Memory: active_id (and kb_focus_id where it is read)
    capture,    \* click-capturing elements of the layers: set of [layer, rect]
    graphics,   \* paint layer store: Layer -> sequence of <<clip rect, PaintCmd>>
    stack,      \* live Regions: a sequence of frames, the last one being built
    ops,        \* layout calls made so far in this frame
    last,       \* what the latest call returned
    phase,      \* "layout" while the tree is built, "frame"/"idle" in the frame loop
    tested,     \* hit tests made in the running frame: widget -> InteractInfo
    hist,       \* frame loop history: the raw input before last_raw, who was pressed
    locks       \* the mutexes of the context: which of them a returned guard holds

vars == <<style, input, last_raw, memory, capture, graphics, stack, ops, last, phase, tested, hist, locks>>

(***************************************************************************)
(* Bounds.                                                                 *)
(***************************************************************************)
MaxOps == 3         \* layout calls per frame
MaxDepth == 3       \* nesting depth of live Regions

(***************************************************************************)
(* Numbers, points, vectors, rectangles (math: Pos2, Vec2, Rect).          *)
(***************************************************************************)
Pt(n) == 4 * n
Half(n) == 2 * n          \* n half points
Quarter(n) == n           \* n quarter points

Min2(a, b) == IF a <= b THEN a ELSE b
Max2(a, b) == IF a >= b THEN a ELSE b

vec2(x, y) == <<x, y>>
pos2(x, y) == <<x, y>>
VAdd(a, b) == <<a[1] + b[1], a[2] + b[2]>>
VSub(a, b) == <<a[1] - b[1], a[2] - b[2]>>
VMin(a, b) == <<Min2(a[1], b[1]), Min2(a[2], b[2])>>
VMax(a, b) == <<Max2(a[1], b[1]), Max2(a[2], b[2])>>

Some(x) == <<x>>
None == <<>>

from_min_max(mn, mx) == [min |-> mn, max |-> mx]
from_min_size(mn, size) == [min |-> mn, max |-> VAdd(mn, size)]
expand(r, m) == [min |-> VSub(r.min, <<m, m>>), max |-> VAdd(r.max, <<m, m>>)]
intersect(a, b) == [min |-> VMax(a.min, b.min), max |-> VMin(a.max, b.max)]
extend_with(r, p) == [min |-> VMin(r.min, p), max |-> VMax(r.max, p)]
width(r) == r.max[1] - r.min[1]
height(r) == r.max[2] - r.min[2]
contains(r, p) ==
    /\ r.min[1] <= p[1] /\ p[1] <= r.max[1]
    /\ r.min[2] <= p[2] /\ p[2] <= r.max[2]

\* every point of b is a point of a (an empty b is inside anything)
RectInside(a, b) ==
    \/ b.min[1] > b.max[1] \/ b.min[2] > b.max[2]
    \/ /\ a.min[1] <= b.min[1] /\ b.max[1] <= a.max[1]
       /\ a.min[2] <= b.min[2] /\ b.max[2] <= a.max[2]

(***************************************************************************)
(* Context::round_to_pixel: to the nearest multiple of one pixel, a pixel  *)
(* being 1/pixels_per_point points; halves round away from zero.           *)
(***************************************************************************)
PixelGrid(ppp) == Pt(1) \div ppp

RoundNat(x, g) == g * ((2 * x + g) \div (2 * g))

RoundTo(x, g) == IF x >= 0 THEN RoundNat(x, g) ELSE 0 - RoundNat(0 - x, g)

round_to_pixel(x) == RoundTo(x, PixelGrid(input.pixels_per_point))

round_vec_to_pixels(v) == <<round_to_pixel(v[1]), round_to_pixel(v[2])>>

round_pos_to_pixels(p) == <<round_to_pixel(p[1]), round_to_pixel(p[2])>>

OnGrid(x) == round_to_pixel(x) = x

(***************************************************************************)
(* Id: a parent Id folded with the hash of a source.  The hash is taken    *)
(* to be injective here: an Id is the path of its sources.                 *)
(***************************************************************************)
With(id, source) == Append(id, source)

from_pos(p) == <<"pos", p[1], p[2]>>

RootId == <<"root">>

(***************************************************************************)
(* GuiInput::from_last_and_new (types.rs).  The fields carried through     *)
(* unchanged and read by nothing below (scroll_delta, screen_size, time,   *)
(* files, events) are left out.                                            *)
(***************************************************************************)
RawInput(down, pos, ppp) == [mouse_down |-> down, mouse_pos |-> pos, pixels_per_point |-> ppp]

\* variant: the release flag follows the previous button level
from_last_and_new_ReleasedWhileHeld(lst, new) ==
    [ mouse_down     |-> new.mouse_down /\ new.mouse_pos # None,
      mouse_pressed  |-> ~lst.mouse_down /\ new.mouse_down,
      mouse_released |-> lst.mouse_down,
      mouse_pos      |-> new.mouse_pos,
      mouse_move     |-> IF new.mouse_pos # None /\ lst.mouse_pos # None
                         THEN VSub(new.mouse_pos[1], lst.mouse_pos[1])
                         ELSE <<0, 0>>,
      pixels_per_point |-> new.pixels_per_point ]

\* variant: the press flag follows the button level
from_last_and_new_PressedLevel(lst, new) ==
    [ mouse_down     |-> new.mouse_down /\ new.mouse_pos # None,
      mouse_pressed  |-> new.mouse_down,
      mouse_released |-> lst.mouse_down /\ ~new.mouse_down,
      mouse_pos      |-> new.mouse_pos,
      mouse_move     |-> IF new.mouse_pos # None /\ lst.mouse_pos # None
                         THEN VSub(new.mouse_pos[1], lst.mouse_pos[1])
                         ELSE <<0, 0>>,
      pixels_per_point |-> new.pixels_per_point ]

\* variant: a release is seen only with a known pointer position
from_last_and_new_ReleasedNeedsPos(lst, new) ==
    [ mouse_down     |-> new.mouse_down /\ new.mouse_pos # None,
      mouse_pressed  |-> ~lst.mouse_down /\ new.mouse_down,
      mouse_released |-> lst.mouse_down /\ ~new.mouse_down /\ new.mouse_pos # None,
      mouse_pos      |-> new.mouse_pos,
      mouse_move     |-> IF new.mouse_pos # None /\ lst.mouse_pos # None
                         THEN VSub(new.mouse_pos[1], lst.mouse_pos[1])
                         ELSE <<0, 0>>,
      pixels_per_point |-> new.pixels_per_point ]

\* variant: a press is seen only with a known pointer position
from_last_and_new_PressedNeedsPos(lst, new) ==
    [ mouse_down     |-> new.mouse_down /\ new.mouse_pos # None,
      mouse_pressed  |-> ~lst.mouse_down /\ new.mouse_down /\ new.mouse_pos # None,
      mouse_released |-> lst.mouse_down /\ ~new.mouse_down,
      mouse_pos      |-> new.mouse_pos,
      mouse_move     |-> IF new.mouse_pos # None /\ lst.mouse_pos # None
                         THEN VSub(new.mouse_pos[1], lst.mouse_pos[1])
                         ELSE <<0, 0>>,
      pixels_per_point |-> new.pixels_per_point ]

from_last_and_new(lst, new) ==
    [ mouse_down     |-> new.mouse_down /\ new.mouse_pos # None,
      mouse_pressed  |-> ~lst.mouse_down /\ new.mouse_down,
      mouse_released |-> lst.mouse_down /\ ~new.mouse_down,
      mouse_pos      |-> new.mouse_pos,
      mouse_move     |-> IF new.mouse_pos # None /\ lst.mouse_pos # None
                         THEN VSub(new.mouse_pos[1], lst.mouse_pos[1])
                         ELSE <<0, 0>>,
      pixels_per_point |-> new.pixels_per_point ]

(***************************************************************************)
(* Layers, in rank order, and the hit test of the Context.                 *)
(***************************************************************************)
Layers == {"Background", "Popup"}

\* the mutexes of the context (ctx.memory, ctx.graphics, ctx.output), none held
Mutexes == {"memory", "graphics", "output"}

NoLocks == [m \in Mutexes |-> FALSE]

Rank(layer) == IF layer = "Background" THEN 0 ELSE 1

\* a click-capturing element of a higher-ranked layer covers the point
Covered(layer, p) ==
    \E c \in capture : Rank(c.layer) > Rank(layer) /\ contains(c.rect, p)

contains_mouse(layer, clip_rect, rect) ==
    /\ input.mouse_pos # None
    /\ contains(clip_rect, input.mouse_pos[1])
    /\ contains(rect, input.mouse_pos[1])
    /\ ~Covered(layer, input.mouse_pos[1])

\* the active id after a hit test for interaction_id
ActiveAfter(hovered, interaction_id) ==
    IF input.mouse_pressed /\ hovered /\ interaction_id # None /\ memory.active_id = None
    THEN interaction_id
    ELSE memory.active_id

interact(layer, clip_rect, rect, interaction_id) ==
    LET hovered == contains_mouse(layer, clip_rect, rect)
        now     == ActiveAfter(hovered, interaction_id)
        active  == interaction_id # None /\ now = interaction_id
    IN  [ info |-> [ hovered |-> hovered,
                     clicked |-> input.mouse_released /\ active /\ hovered,
                     active  |-> active,
                     rect    |-> rect ],
          active_id |-> now ]

(***************************************************************************)
(* Region (region.rs).                                                     *)
(***************************************************************************)
CLIP_RECT_MARGIN == Pt(3)

Directions == {"Horizontal", "Vertical"}
Aligns == {"Min", "Center", "Max"}

Region_new(layer, id, rect) ==
    [ id           |-> id,
      layer        |-> layer,
      clip_rect    |-> expand(rect, CLIP_RECT_MARGIN),
      desired_rect |-> rect,
      child_bounds |-> from_min_size(rect.min, <<0, 0>>),
      style        |-> style,
      cursor       |-> rect.min,
      dir          |-> "Vertical",
      align        |-> "Min" ]

\* variants of child_clip_rect: the parent's clip rect is not applied; the
\* margin goes to the parent's clip rect instead of the child's rect
child_clip_rect_Unclipped(r, child_rect) == expand(child_rect, CLIP_RECT_MARGIN)

child_clip_rect_MarginOnParent(r, child_rect) ==
    intersect(expand(r.clip_rect, CLIP_RECT_MARGIN), child_rect)

child_clip_rect(r, child_rect) == intersect(r.clip_rect, expand(child_rect, CLIP_RECT_MARGIN))

child_region(r, child_rect) ==
    [ id           |-> r.id,
      layer        |-> r.layer,
      clip_rect    |-> child_clip_rect(r, child_rect),
      desired_rect |-> child_rect,
      child_bounds |-> from_min_size(child_rect.min, <<0, 0>>),
      style        |-> r.style,
      cursor       |-> child_rect.min,
      dir          |-> r.dir,
      align        |-> r.align ]

bottom_right(r) == VMax(r.desired_rect.max, r.child_bounds.max)

available_space(r) == VSub(bottom_right(r), r.cursor)

available_width(r) == available_space(r)[1]

available_height(r) == available_space(r)[2]

\* variant of bounding_size: measured to bottom_right instead of child_bounds
bounding_size_ToBottomRight(r) == VSub(bottom_right(r), r.desired_rect.min)

bounding_size(r) == VSub(r.child_bounds.max, r.desired_rect.min)

set_align(r, align) == [r EXCEPT !.align = align]

\* variant of make_position_id: the id of the place the next widget would get
make_position_id_NextPlace(r) == With(r.id, from_pos(VAdd(r.cursor, r.style.item_spacing)))

make_position_id(r) == With(r.id, from_pos(r.cursor))

make_child_id(r, id_seed) == With(r.id, id_seed)

\* variant of interact_rect: the Region's clip rect is not passed on
interact_rect_Unclipped(r, rect, id) == interact(r.layer, rect, rect, Some(id))

interact_rect(r, rect, id) == interact(r.layer, r.clip_rect, rect, Some(id))

interact_whole(r) == interact(r.layer, r.clip_rect, r.desired_rect, Some(r.id))

\* 0.5 * x, which is exact for the x the guards let through
HalfOf(x) == x \div 2

\* variant of AlignOffset: the offset is clamped at zero
AlignOffset_Clamped(align, available, child) ==
    CASE align = "Min"    -> 0
      [] align = "Center" -> Max2(0, HalfOf(available - child))
      [] align = "Max"    -> Max2(0, available - child)

AlignOffset(align, available, child) ==
    CASE align = "Min"    -> 0
      [] align = "Center" -> HalfOf(available - child)
      [] align = "Max"    -> available - child

\* the f32 result of reserve_space_impl is a whole number of quarter points
ExactAlign(r, child_size) ==
    r.align = "Center" =>
        IF r.dir = "Horizontal"
        THEN (available_height(r) - child_size[2]) % 2 = 0
        ELSE (available_width(r) - child_size[1]) % 2 = 0

\* variant of reserve_space_impl: the child-bounding box is left as it was
reserve_space_impl_BoundsKept(r, child_size) ==
    IF r.dir = "Horizontal"
    THEN [ child_pos |-> <<r.cursor[1],
                           r.cursor[2] + AlignOffset(r.align, available_height(r), child_size[2])>>,
           region |-> [r EXCEPT
                 !.cursor = <<r.cursor[1] + child_size[1] + r.style.item_spacing[1], r.cursor[2]>>] ]
    ELSE [ child_pos |-> <<r.cursor[1] + AlignOffset(r.align, available_width(r), child_size[1]),
                           r.cursor[2]>>,
           region |-> [r EXCEPT
                 !.cursor = <<r.cursor[1], r.cursor[2] + child_size[2] + r.style.item_spacing[2]>>] ]

\* variant of reserve_space_impl: the cursor advances without the item spacing
reserve_space_impl_NoSpacing(r, child_size) ==
    IF r.dir = "Horizontal"
    THEN [ child_pos |-> <<r.cursor[1],
                           r.cursor[2] + AlignOffset(r.align, available_height(r), child_size[2])>>,
           region |-> [r EXCEPT
                 !.child_bounds = extend_with(r.child_bounds, VAdd(r.cursor, child_size)),
                 !.cursor = <<r.cursor[1] + child_size[1], r.cursor[2]>>] ]
    ELSE [ child_pos |-> <<r.cursor[1] + AlignOffset(r.align, available_width(r), child_size[1]),
                           r.cursor[2]>>,
           region |-> [r EXCEPT
                 !.child_bounds = extend_with(r.child_bounds, VAdd(r.cursor, child_size)),
                 !.cursor = <<r.cursor[1], r.cursor[2] + child_size[2]>>] ]

\* variant of reserve_space_impl: the item spacing is taken off the cursor
reserve_space_impl_SpacingBack(r, child_size) ==
    IF r.dir = "Horizontal"
    THEN [ child_pos |-> <<r.cursor[1],
                           r.cursor[2] + AlignOffset(r.align, available_height(r), child_size[2])>>,
           region |-> [r EXCEPT
                 !.child_bounds = extend_with(r.child_bounds, VAdd(r.cursor, child_size)),
                 !.cursor = <<r.cursor[1] + child_size[1] - r.style.item_spacing[1], r.cursor[2]>>] ]
    ELSE [ child_pos |-> <<r.cursor[1] + AlignOffset(r.align, available_width(r), child_size[1]),
                           r.cursor[2]>>,
           region |-> [r EXCEPT
                 !.child_bounds = extend_with(r.child_bounds, VAdd(r.cursor, child_size)),
                 !.cursor = <<r.cursor[1], r.cursor[2] + child_size[2] - r.style.item_spacing[2]>>] ]

reserve_space_impl(r, child_size) ==
    IF r.dir = "Horizontal"
    THEN [ child_pos |-> <<r.cursor[1],
                           r.cursor[2] + AlignOffset(r.align, available_height(r), child_size[2])>>,
           region |-> [r EXCEPT
                 !.child_bounds = extend_with(r.child_bounds, VAdd(r.cursor, child_size)),
                 !.cursor = <<r.cursor[1] + child_size[1] + r.style.item_spacing[1], r.cursor[2]>>] ]
    ELSE [ child_pos |-> <<r.cursor[1] + AlignOffset(r.align, available_width(r), child_size[1]),
                           r.cursor[2]>>,
           region |-> [r EXCEPT
                 !.child_bounds = extend_with(r.child_bounds, VAdd(r.cursor, child_size)),
                 !.cursor = <<r.cursor[1], r.cursor[2] + child_size[2] + r.style.item_spacing[2]>>] ]

PaintRect(rect) == [kind |-> "Rect", a |-> rect.min, b |-> rect.max]

line_segment(a, b) == [kind |-> "Line", a |-> a, b |-> b]

DebugCmds(rect, too_wide, too_high) ==
    <<PaintRect(rect)>>
    \o (IF too_wide
        THEN << line_segment(rect.min, <<rect.min[1], rect.max[2]>>),
                line_segment(<<rect.max[1], rect.min[2]>>, rect.max) >>
        ELSE <<>>)
    \o (IF too_high
        THEN << line_segment(rect.min, <<rect.max[1], rect.min[2]>>),
                line_segment(<<rect.min[1], rect.max[2]>>, rect.max) >>
        ELSE <<>>)

\* variant of reserve_space: the request is cut down to the space that is left
reserve_space_Clamped(r, size) ==
    LET r1         == [r EXCEPT !.cursor = round_pos_to_pixels(r.cursor)]
        child_size == VMin(round_vec_to_pixels(size), available_space(r1))
        too_wide   == child_size[1] > available_width(r1)
        too_high   == child_size[1] > available_height(r1)
        res        == reserve_space_impl(r1, child_size)
        rect       == from_min_size(res.child_pos, child_size)
    IN  [ region     |-> res.region,
          rect       |-> rect,
          child_size |-> child_size,
          before     |-> r1,
          cmds       |-> IF r.style.debug_regions
                         THEN DebugCmds(rect, too_wide, too_high)
                         ELSE <<>> ]

\* reserve_space up to its hit test: the Region afterwards, the rectangle
\* returned and the paint commands added to the Region's layer
reserve_space(r, size) ==
    LET child_size == round_vec_to_pixels(size)
        r1         == [r EXCEPT !.cursor = round_pos_to_pixels(r.cursor)]
        too_wide   == child_size[1] > available_width(r1)
        too_high   == child_size[1] > available_height(r1)
        res        == reserve_space_impl(r1, child_size)
        rect       == from_min_size(res.child_pos, child_size)
    IN  [ region     |-> res.region,
          rect       |-> rect,
          child_size |-> child_size,
          before     |-> r1,
          cmds       |-> IF r.style.debug_regions
                         THEN DebugCmds(rect, too_wide, too_high)
                         ELSE <<>> ]

ExactReserve(r, size) ==
    ExactAlign([r EXCEPT !.cursor = round_pos_to_pixels(r.cursor)], round_vec_to_pixels(size))

\* add_paint_cmd / add_paint_cmds: appended to the layer, each with the clip rect
Painted(g, r, cmds) ==
    [g EXCEPT ![r.layer] = @ \o [i \in 1..Len(cmds) |-> <<r.clip_rect, cmds[i]>>]]

(***************************************************************************)
(* The Regions that are alive.  A frame of the stack holds the Region (or  *)
(* the columns) a closure is building, which Region of the frame below it  *)
(* was made from, and what the call that made it needs when the closure    *)
(* returns.  log[i] records the reservations made from regions[i].         *)
(***************************************************************************)
NoRect == from_min_size(<<0, 0>>, <<0, 0>>)

NoInfo == [hovered |-> FALSE, clicked |-> FALSE, active |-> FALSE, rect |-> NoRect]

NoAux == [child_rect |-> NoRect, total_spacing |-> 0]

Frame(kind, parent, regions, aux) ==
    [ kind    |-> kind,
      parent  |-> parent,
      regions |-> regions,
      aux     |-> aux,
      log     |-> [i \in 1..Len(regions) |-> <<>>] ]

Top == stack[Len(stack)]

LogEntry(r, size, res) ==
    [ cursor     |-> r.cursor,
      at_call    |-> available_space(r),
      available  |-> available_space(res.before),
      dir        |-> r.dir,
      align      |-> r.align,
      spacing    |-> r.style.item_spacing,
      size       |-> size,
      child_size |-> res.child_size,
      rect       |-> res.rect,
      after      |-> res.region.cursor ]

\* frame f after regions[i] made the reservation res
Reserved(f, i, size, res) ==
    [f EXCEPT !.regions[i] = res.region,
              !.log[i] = Append(@, LogEntry(f.regions[i], size, res))]

Last(op, depth, i, rect, info) ==
    [op |-> op, depth |-> depth, region |-> i, rect |-> rect, info |-> info, popped |-> <<>>]

(***************************************************************************)
(* Inputs of the layout calls.                                             *)
(***************************************************************************)
BigRect == from_min_size(<<0, 0>>, <<Pt(400), Pt(300)>>)

SmallRect == from_min_max(<<Half(21), Quarter(25)>>, <<Half(101), Quarter(145)>>)

\* a root rect whose corner the pixel grid of ratio 1 rounds down
OffGridRect == from_min_max(<<Quarter(41), Quarter(25)>>, <<Pt(110), Pt(86)>>)

PointerAt == <<Pt(20), Pt(12)>>

\* the frames explored: root rect, item spacing, pixels per point, debug flag, pointer
Configs ==
    { [rect |-> BigRect,   spacing |-> <<Pt(8), Pt(4)>>,             ppp |-> 1, debug |-> FALSE, down |-> FALSE, pos |-> None],
      [rect |-> SmallRect, spacing |-> <<Quarter(9), Quarter(5)>>,   ppp |-> 2, debug |-> TRUE,  down |-> TRUE,  pos |-> Some(PointerAt)],
      [rect |-> OffGridRect, spacing |-> <<0, 0>>,                   ppp |-> 1, debug |-> FALSE, down |-> FALSE, pos |-> None] }

\* the widgets added: the size asked for, and whether an interaction id is passed
Widgets ==
    { [size |-> <<Pt(30), Pt(20)>>,       interactive |-> TRUE],
      [size |-> <<Half(101), Half(69)>>,  interactive |-> TRUE],
      [size |-> <<Quarter(9), Half(41)>>, interactive |-> FALSE] }

CustomSizes == { <<Pt(1000000), Pt(1000000)>>, <<Pt(20), Pt(10)>> }

ColumnWidths == { Pt(24) }

ColumnCounts == { 2 }

IdSources == { "a" }

\* the alignments passed to horizontal and to vertical; set_align gives the others
HorizontalAligns == { "Min", "Max" }

VerticalAligns == { "Min", "Center" }

(***************************************************************************)
(* One frame of layout: the state once begin_frame has run and the root    *)
(* Region has been made.                                                   *)
(***************************************************************************)
InitLayout ==
    \E c \in Configs :
        /\ style = [item_spacing |-> c.spacing, indent |-> Pt(21), debug_regions |-> c.debug]
        /\ last_raw = RawInput(c.down, c.pos, c.ppp)
        /\ input = from_last_and_new(RawInput(FALSE, None, c.ppp), last_raw)
        /\ memory = [active_id |-> None]
        /\ capture = {}
        /\ graphics = [l \in Layers |-> <<>>]
        /\ stack = << Frame("root", 0, <<Region_new("Background", RootId, c.rect)>>, NoAux) >>
        /\ ops = 0
        /\ locks = NoLocks
        /\ last = Last("new", 1, 1, NoRect, NoInfo)
        /\ phase = "layout"
        /\ tested = <<>>
        /\ hist = <<>>

CanCall == phase = "layout" /\ ops < MaxOps

CanNest == CanCall /\ Len(stack) < MaxDepth

Push(f) == stack' = Append(stack, f)

\* reserve_space(size, interaction_id) on regions[i] of the top frame
ReserveSpace(i, size, with_id) ==
    /\ CanCall
    /\ ExactReserve(Top.regions[i], size)
    /\ \E r \in {Top.regions[i]} :
       \E res \in {reserve_space(r, size)} :
       \E hit \in {interact(r.layer, r.clip_rect, res.rect,
                            IF with_id THEN Some(make_position_id(r)) ELSE None)} :
          /\ stack' = [stack EXCEPT ![Len(stack)] = Reserved(Top, i, size, res)]
          /\ graphics' = Painted(graphics, r, res.cmds)
          /\ memory' = [memory EXCEPT !.active_id = hit.active_id]
          /\ last' = Last("reserve_space", Len(stack), i, res.rect, hit.info)
    /\ ops' = ops + 1
    /\ UNCHANGED <<style, locks, input, last_raw, capture, phase, tested, hist>>

SetAlign(i, align) ==
    /\ CanCall
    /\ Top.regions[i].align # align
    /\ stack' = [stack EXCEPT ![Len(stack)].regions[i] = set_align(@, align)]
    /\ last' = Last("set_align", Len(stack), i, NoRect, NoInfo)
    /\ ops' = ops + 1
    /\ UNCHANGED <<style, locks, input, last_raw, memory, capture, graphics, phase, tested, hist>>

Began(op, f) ==
    /\ Push(f)
    /\ last' = Last(op, Len(stack) + 1, 1, f.regions[1].desired_rect, NoInfo)
    /\ ops' = ops + 1
    /\ UNCHANGED <<style, locks, input, last_raw, memory, capture, graphics, phase, tested, hist>>

\* inner_layout up to the call of add_contents
\* variant of inner_layout_child: the child keeps the parent's direction and alignment
inner_layout_child_Inherit(r, dir, align) ==
    child_region(r, from_min_max(r.cursor, bottom_right(r)))

inner_layout_child(r, dir, align) ==
    [child_region(r, from_min_max(r.cursor, bottom_right(r))) EXCEPT !.dir = dir, !.align = align]

Horizontal(i, align) ==
    /\ CanNest
    /\ Began("horizontal",
             Frame("inner", i, <<inner_layout_child(Top.regions[i], "Horizontal", align)>>, NoAux))

Vertical(i, align) ==
    /\ CanNest
    /\ Began("vertical",
             Frame("inner", i, <<inner_layout_child(Top.regions[i], "Vertical", align)>>, NoAux))

\* add_custom_contents up to the call of add_contents
\* variant of custom_child_rect: the child gets the size asked for
custom_child_rect_Unclamped(r, size) == from_min_size(r.cursor, size)

custom_child_rect(r, size) == from_min_size(r.cursor, VMin(size, available_space(r)))

AddCustomContents(i, size) ==
    /\ CanNest
    /\ Began("add_custom_contents",
             Frame("custom", i, <<child_region(Top.regions[i], custom_child_rect(Top.regions[i], size))>>, NoAux))

\* indent up to the call of add_contents
indent_child_rect(r) == from_min_max(VAdd(r.cursor, <<r.style.indent, 0>>), bottom_right(r))

indent_child(r, id_source) ==
    [child_region(r, indent_child_rect(r)) EXCEPT !.id = With(r.id, id_source), !.align = "Min"]

\* variant of Indent: the direction is not asserted
Indent_Unchecked(i, id_source) ==
    /\ CanNest
    /\ Began("indent",
             Frame("indent", i, <<indent_child(Top.regions[i], id_source)>>,
                   [NoAux EXCEPT !.child_rect = indent_child_rect(Top.regions[i])]))

Indent(i, id_source) ==
    /\ CanNest
    /\ Top.regions[i].dir = "Vertical"
    /\ Began("indent",
             Frame("indent", i, <<indent_child(Top.regions[i], id_source)>>,
                   [NoAux EXCEPT !.child_rect = indent_child_rect(Top.regions[i])]))

\* the assertion of indent fails
IndentPanic(i, id_source) ==
    /\ CanNest
    /\ Top.regions[i].dir # "Vertical"
    /\ phase' = "panicked"
    /\ last' = Last("indent", Len(stack), i, NoRect, NoInfo)
    /\ UNCHANGED <<style, locks, input, last_raw, memory, capture, graphics, stack, ops, tested, hist>>

\* column(column_position, width): only a child Region is made
\* variant of column_x: every column starts at the cursor
column_x_NoShift(r, column_position, w) == 0

column_x(r, column_position, w) ==
    CASE column_position = "Min"    -> 0
      [] column_position = "Center" -> HalfOf(available_width(r) - w)
      [] column_position = "Max"    -> available_width(r) - w

column(r, column_position, w) ==
    child_region(r, from_min_size(VAdd(r.cursor, <<column_x(r, column_position, w), 0>>),
                                  <<w, available_height(r)>>))

Column(i, column_position, w) ==
    /\ CanNest
    /\ column_position = "Center" => (available_width(Top.regions[i]) - w) % 2 = 0
    /\ Began("column", Frame("column", i, <<column(Top.regions[i], column_position, w)>>, NoAux))

\* columns(num_columns, ..) up to the call of add_contents
\* variant of total_spacing: one gap for every column
total_spacing_PerColumn(r, n) == r.style.item_spacing[1] * n

total_spacing(r, n) == r.style.item_spacing[1] * (n - 1)

column_width(r, n) == (available_width(r) - total_spacing(r, n)) \div n

columns_child(r, n, col_idx) ==
    LET pos == VAdd(r.cursor, <<col_idx * (column_width(r, n) + r.style.item_spacing[1]), 0>>)
        child_rect == from_min_max(pos, <<pos[1] + column_width(r, n), bottom_right(r)[2]>>)
    IN  [child_region(r, child_rect) EXCEPT
            !.id = make_child_id(r, <<"column", col_idx>>), !.dir = "Vertical"]

Columns(i, n) ==
    /\ CanNest
    /\ (available_width(Top.regions[i]) - total_spacing(Top.regions[i], n)) % n = 0
    /\ Began("columns",
             Frame("columns", i, [k \in 1..n |-> columns_child(Top.regions[i], n, k - 1)],
                   [NoAux EXCEPT !.total_spacing = total_spacing(Top.regions[i], n)]))

(***************************************************************************)
(* The closure returns: what each call does after add_contents.            *)
(***************************************************************************)
Below == stack[Len(stack) - 1]

Parent == Below.regions[Top.parent]

CanReturn(kind) == phase = "layout" /\ Len(stack) > 1 /\ Top.kind = kind

\* the parent paints cmds, then reserves size with no interaction id
Returned(op, cmds, size) ==
    /\ ExactReserve(Parent, size)
    /\ \E r \in {Parent} :
       \E res \in {reserve_space(r, size)} :
       \E hit \in {interact(r.layer, r.clip_rect, res.rect, None)} :
          /\ stack' = [SubSeq(stack, 1, Len(stack) - 1) EXCEPT
                          ![Len(stack) - 1] = Reserved(Below, Top.parent, size, res)]
          /\ graphics' = Painted(Painted(graphics, r, cmds), r, res.cmds)
          /\ memory' = [memory EXCEPT !.active_id = hit.active_id]
          /\ last' = [Last(op, Len(stack) - 1, Top.parent, res.rect, hit.info) EXCEPT
                          !.popped = Top.regions]
    /\ UNCHANGED <<style, locks, input, last_raw, capture, ops, phase, tested, hist>>

\* inner_layout and add_custom_contents reserve the child's bounding size
EndInner ==
    /\ CanReturn("inner")
    /\ Returned("inner_layout", <<>>, bounding_size(Top.regions[1]))

EndCustom ==
    /\ CanReturn("custom")
    /\ Returned("add_custom_contents", <<>>, bounding_size(Top.regions[1]))

\* indent paints its guide line and reserves indent + the child's bounding size
indent_line(r, child_rect, size) ==
    LET line_start == <<RoundTo(child_rect.min[1] - HalfOf(r.style.indent), Pt(1)),
                        RoundTo(child_rect.min[2], Pt(1))>>
    IN  line_segment(line_start, <<line_start[1], line_start[2] + size[2] - Pt(8)>>)

\* variant of indent_size: the child's bounding size without the indent
indent_size_NoIndent(r, size) == size

indent_size(r, size) == VAdd(<<r.style.indent, 0>>, size)

EndIndent ==
    /\ CanReturn("indent")
    /\ Returned("indent",
                <<indent_line(Parent, Top.aux.child_rect, bounding_size(Top.regions[1]))>>,
                indent_size(Parent, bounding_size(Top.regions[1])))

\* columns reserves the widest of the available width and the columns' content
RECURSIVE SumWidths(_, _)
SumWidths(regions, k) ==
    IF k = 0 THEN 0 ELSE width(regions[k].child_bounds) + SumWidths(regions, k - 1)

RECURSIVE MaxHeight(_, _)
MaxHeight(regions, k) ==
    IF k = 0 THEN 0 ELSE Max2(bounding_size(regions[k])[2], MaxHeight(regions, k - 1))

\* variant of columns_size: the spacing between the columns is left out
columns_size_NoSpacing(r, regions, spacing) ==
    << Max2(available_width(r), SumWidths(regions, Len(regions))),
       MaxHeight(regions, Len(regions)) >>

columns_size(r, regions, spacing) ==
    << Max2(available_width(r), spacing + SumWidths(regions, Len(regions))),
       MaxHeight(regions, Len(regions)) >>

EndColumns ==
    /\ CanReturn("columns")
    /\ Returned("columns", <<>>, columns_size(Parent, Top.regions, Top.aux.total_spacing))

\* the Region that column returned is dropped: the parent takes no note of it
EndColumn ==
    /\ CanReturn("column")
    /\ stack' = SubSeq(stack, 1, Len(stack) - 1)
    /\ last' = [Last("drop", Len(stack) - 1, Top.parent, NoRect, NoInfo) EXCEPT
                    !.popped = Top.regions]
    /\ UNCHANGED <<style, locks, input, last_raw, memory, capture, graphics, ops, phase, tested, hist>>

NextLayout ==
    \/ \E i \in 1..Len(Top.regions), w \in Widgets : ReserveSpace(i, w.size, w.interactive)
    \/ \E i \in 1..Len(Top.regions), align \in Aligns : SetAlign(i, align)
    \/ \E i \in 1..Len(Top.regions), align \in HorizontalAligns : Horizontal(i, align)
    \/ \E i \in 1..Len(Top.regions), align \in VerticalAligns : Vertical(i, align)
    \/ \E i \in 1..Len(Top.regions), size \in CustomSizes : AddCustomContents(i, size)
    \/ \E i \in 1..Len(Top.regions), id_source \in IdSources : Indent(i, id_source)
    \/ \E i \in 1..Len(Top.regions), id_source \in IdSources : IndentPanic(i, id_source)
    \/ \E i \in 1..Len(Top.regions), align \in Aligns, w \in ColumnWidths : Column(i, align, w)
    \/ \E i \in 1..Len(Top.regions), n \in ColumnCounts : Columns(i, n)
    \/ EndInner
    \/ EndCustom
    \/ EndIndent
    \/ EndColumns
    \/ EndColumn

Spec == InitLayout /\ [][NextLayout]_vars

(***************************************************************************)
(* Reading the live Regions and their logs.                                *)
(***************************************************************************)
Live == UNION { { <<k, i>> : i \in 1..Len(stack[k].regions) } : k \in 1..Len(stack) }

RegionAt(p) == stack[p[1]].regions[p[2]]

LogAt(p) == stack[p[1]].log[p[2]]

ParentOf(p) == stack[p[1] - 1].regions[stack[p[1]].parent]

Children == { p \in Live : p[1] > 1 }

\* the coordinate along the layout direction, and the one across it
Along(dir, v) == IF dir = "Horizontal" THEN v[1] ELSE v[2]

Across(dir, v) == IF dir = "Horizontal" THEN v[2] ELSE v[1]

RECURSIVE SumAlong(_, _, _)
SumAlong(log, k, field) ==
    IF k = 0 THEN 0
    ELSE Along(log[k].dir, IF field = "size" THEN log[k].size ELSE log[k].child_size)
         + SumAlong(log, k - 1, field)

OffGrid(v) == round_vec_to_pixels(v) # v

(***************************************************************************)
(* C1.  As stated: after n calls of reserve_space on a Region, the cursor  *)
(* along the layout direction is the start coordinate plus the sum of the  *)
(* requested extents plus n times the item spacing.                        *)
(***************************************************************************)
C1_CursorIsStartPlusRequested ==
    \A p \in Live :
        LET r == RegionAt(p) IN
        Along(r.dir, r.cursor) =
            Along(r.dir, r.desired_rect.min) + SumAlong(LogAt(p), Len(LogAt(p)), "size")
            + Len(LogAt(p)) * Along(r.dir, r.style.item_spacing)

(***************************************************************************)
(* C1, amended.  reserve_space rounds the cursor and the requested size to *)
(* the pixel grid first: after n >= 1 calls the cursor along the layout    *)
(* direction is round(start) + sum of round(h_i) + (n-1)*round(s) + s,     *)
(* which is start + sum of h_i + n*s when the start, the extents and the   *)
(* spacing lie on the pixel grid; before the first call it is the start.   *)
(***************************************************************************)
C1_CursorLaw ==
    \A p \in Live :
        LET r == RegionAt(p)
            n == Len(LogAt(p))
            s == Along(r.dir, r.style.item_spacing)
            start == Along(r.dir, r.desired_rect.min)
        IN  /\ n = 0 => r.cursor = r.desired_rect.min
            /\ n >= 1 => Along(r.dir, r.cursor) =
                            round_to_pixel(start) + SumAlong(LogAt(p), n, "child_size")
                            + (n - 1) * round_to_pixel(s) + s
            /\ (n >= 1 /\ OnGrid(start) /\ OnGrid(s)
                  /\ \A k \in 1..n : OnGrid(Along(r.dir, LogAt(p)[k].size)))
               => Along(r.dir, r.cursor) = start + SumAlong(LogAt(p), n, "size") + n * s

\* a horizontal Region with two reservations, one of them of an off-grid width
C1_Witness ==
    \E p \in Live :
        /\ RegionAt(p).dir = "Horizontal"
        /\ Len(LogAt(p)) = 2
        /\ \E k \in 1..2 : ~OnGrid(LogAt(p)[k].size[1])

(***************************************************************************)
(* C2.  The child-bounding box of a Region contains every rectangle that   *)
(* its reserve_space calls returned.                                       *)
(***************************************************************************)
C2_BoundsContainReserved ==
    \A p \in Live : \A k \in 1..Len(LogAt(p)) :
        LET b == RegionAt(p).child_bounds
            e == LogAt(p)[k].rect
        IN  /\ b.min[1] <= e.min[1] /\ e.max[1] <= b.max[1]
            /\ b.min[2] <= e.min[2] /\ e.max[2] <= b.max[2]

(***************************************************************************)
(* C3.  As stated: in a vertical Region of 400x300 with item spacing 4 at  *)
(* pixel ratio 1, three reservations of height 20 find the cursor at 0, 24 *)
(* and 48, and the bounding height after the third is 60.                  *)
(***************************************************************************)
C3_IsScenario(p) ==
    /\ p[1] = 1
    /\ RegionAt(p).desired_rect = BigRect
    /\ RegionAt(p).dir = "Vertical"
    /\ RegionAt(p).style.item_spacing[2] = Pt(4)
    /\ input.pixels_per_point = 1
    /\ Len(LogAt(p)) = 3
    /\ \A k \in 1..3 : LogAt(p)[k].size[2] = Pt(20)

C3_CursorsAt(p) ==
    /\ LogAt(p)[1].cursor[2] = RegionAt(p).desired_rect.min[2]
    /\ LogAt(p)[2].cursor[2] = RegionAt(p).desired_rect.min[2] + Pt(24)
    /\ LogAt(p)[3].cursor[2] = RegionAt(p).desired_rect.min[2] + Pt(48)

C3_ScenarioHeight60 ==
    \A p \in Live : C3_IsScenario(p) =>
        C3_CursorsAt(p) /\ bounding_size(RegionAt(p))[2] = Pt(60)

(***************************************************************************)
(* C3, amended.  The cursor is at 0, 24 and 48 before the three calls and  *)
(* the bounding height after the third is 68: the two item spacings        *)
(* between the children are inside the bounding box, the one after the     *)
(* last child is not.                                                      *)
(***************************************************************************)
C3_ScenarioHeight68 ==
    \A p \in Live : C3_IsScenario(p) =>
        C3_CursorsAt(p) /\ bounding_size(RegionAt(p))[2] = Pt(68)

C3_Witness == \E p \in Live : C3_IsScenario(p)

(***************************************************************************)
(* C4.  As stated: across the layout direction the returned rectangle is   *)
(* at the cursor plus 0 (Min), (a - c)/2 (Center) or a - c (Max), c being  *)
(* the requested extent and a the extent available at the time of the call.*)
(***************************************************************************)
OffsetLaw(align, offset, a, c) ==
    CASE align = "Min"    -> offset = 0
      [] align = "Center" -> 2 * offset = a - c
      [] align = "Max"    -> offset = a - c

C4_OffsetFromRequested ==
    \A p \in Live : \A k \in 1..Len(LogAt(p)) :
        LET e == LogAt(p)[k] IN
        OffsetLaw(e.align, Across(e.dir, e.rect.min) - Across(e.dir, e.cursor),
                  Across(e.dir, e.at_call), Across(e.dir, e.size))

(***************************************************************************)
(* C4, amended.  The law holds of the values reserve_space works with: the *)
(* cursor rounded to the pixel grid, c the requested extent rounded to the *)
(* pixel grid, and a the extent available from the rounded cursor.  The    *)
(* offset is not clamped: under Center and Max it is negative when c > a.  *)
(***************************************************************************)
C4_OffsetLaw ==
    \A p \in Live : \A k \in 1..Len(LogAt(p)) :
        LET e      == LogAt(p)[k]
            offset == Across(e.dir, e.rect.min) - Across(e.dir, round_pos_to_pixels(e.cursor))
            a      == Across(e.dir, VSub(VAdd(e.cursor, e.at_call), round_pos_to_pixels(e.cursor)))
            c      == Across(e.dir, round_vec_to_pixels(e.size))
        IN  /\ OffsetLaw(e.align, offset, a, c)
            /\ (e.align # "Min" /\ c > a) => offset < 0
            /\ Along(e.dir, e.rect.min) = Along(e.dir, round_pos_to_pixels(e.cursor))

\* a centred reservation wider than the space available: a negative offset
C4_Witness ==
    \E p \in Live : \E k \in 1..Len(LogAt(p)) :
        /\ LogAt(p)[k].align = "Center"
        /\ Across(LogAt(p)[k].dir, LogAt(p)[k].child_size) > Across(LogAt(p)[k].dir, LogAt(p)[k].available)
        /\ Across(LogAt(p)[k].dir, LogAt(p)[k].rect.min) < Across(LogAt(p)[k].dir, LogAt(p)[k].cursor)

(***************************************************************************)
(* C9.  The clip rect of every child Region, whichever call made it and    *)
(* however deep, lies inside the clip rect of the Region it was made from. *)
(***************************************************************************)
C9_ClipShrinks ==
    \A p \in Children :
        LET c == RegionAt(p).clip_rect
            q == ParentOf(p).clip_rect
        IN  /\ q.min[1] <= c.min[1] /\ c.max[1] <= q.max[1]
            /\ q.min[2] <= c.min[2] /\ c.max[2] <= q.max[2]

\* a Region two levels down whose clip rect the parent's clip rect has cut
C9_Witness ==
    \E p \in Children :
        /\ p[1] = 3
        /\ RegionAt(p).clip_rect # expand(RegionAt(p).desired_rect, CLIP_RECT_MARGIN)

(***************************************************************************)
(* C10.  As stated: the clip rect of a child Region is the intersection of *)
(* the parent's clip rect expanded by the margin and the child's own rect. *)
(***************************************************************************)
C10_ParentExpanded ==
    \A p \in Children :
        RegionAt(p).clip_rect =
            intersect(expand(ParentOf(p).clip_rect, CLIP_RECT_MARGIN), RegionAt(p).desired_rect)

(***************************************************************************)
(* C10, amended.  The clip rect of a child Region is the intersection of   *)
(* the parent's clip rect (as it is) and the child's own rect expanded by  *)
(* the margin.                                                             *)
(***************************************************************************)
C10_ChildExpanded ==
    \A p \in Children :
        LET c == RegionAt(p).clip_rect
            q == ParentOf(p).clip_rect
            d == RegionAt(p).desired_rect
        IN  /\ c.min = VMax(q.min, VSub(d.min, <<CLIP_RECT_MARGIN, CLIP_RECT_MARGIN>>))
            /\ c.max = VMin(q.max, VAdd(d.max, <<CLIP_RECT_MARGIN, CLIP_RECT_MARGIN>>))

\* a child Region with a reservation whose clip rect reaches beyond its own rect
C10_Witness ==
    \E p \in Children :
        /\ Len(LogAt(p)) > 0
        /\ RegionAt(p).clip_rect.min[1] < RegionAt(p).desired_rect.min[1]
        /\ RegionAt(p).clip_rect.max[1] <= ParentOf(p).clip_rect.max[1]

(***************************************************************************)
(* C11.  As stated: along the layout direction the cursor after every      *)
(* reservation (by reserve_space or by a derived layout operation) is      *)
(* greater than or equal to the cursor before it.                          *)
(***************************************************************************)
C11_CursorNeverRetreats ==
    \A p \in Live : \A k \in 1..Len(LogAt(p)) :
        Along(LogAt(p)[k].dir, LogAt(p)[k].after) >= Along(LogAt(p)[k].dir, LogAt(p)[k].cursor)

(***************************************************************************)
(* C11, amended.  A reservation first rounds the cursor to the pixel grid, *)
(* which may move it back by less than half a pixel, and then advances it  *)
(* by the rounded size plus the item spacing: the cursor after the call is *)
(* never before the rounded cursor, and never before the cursor itself     *)
(* when that lay on the pixel grid or when rounded size plus spacing is at *)
(* least half a pixel.  Nothing but a reservation moves the cursor.        *)
(***************************************************************************)
C11_CursorLaw ==
    \A p \in Live :
        LET log == LogAt(p)
            g   == PixelGrid(input.pixels_per_point)
        IN  /\ \A k \in 1..Len(log) :
                  LET e      == log[k]
                      before == Along(e.dir, e.cursor)
                      snap   == round_to_pixel(before)
                      step   == Along(e.dir, e.child_size) + Along(e.dir, RegionAt(p).style.item_spacing)
                  IN  /\ Along(e.dir, e.after) = snap + step
                      /\ step >= 0
                      /\ 2 * (before - snap) <= g
                      /\ (OnGrid(before) \/ 2 * step >= g) => Along(e.dir, e.after) >= before
                      /\ Across(e.dir, e.after) = round_to_pixel(Across(e.dir, e.cursor))
            /\ \A k \in 1..(Len(log) - 1) : log[k + 1].cursor = log[k].after
            /\ Len(log) > 0 => RegionAt(p).cursor = log[Len(log)].after

\* a cursor off the pixel grid that an empty child's reservation moved back
C11_Witness ==
    \E p \in Live : \E k \in 1..Len(LogAt(p)) :
        /\ last.op = "inner_layout"
        /\ LogAt(p)[k].child_size = <<0, 0>>
        /\ Along(LogAt(p)[k].dir, LogAt(p)[k].after) < Along(LogAt(p)[k].dir, LogAt(p)[k].cursor)

(***************************************************************************)
(* The call that has just returned: the Region it was made on, the entry   *)
(* its reservation left in that Region's log, and the Regions it built.    *)
(***************************************************************************)
JustReturned(op) == phase = "layout" /\ last.op = op /\ last.popped # <<>>

Caller == <<last.depth, last.region>>

Entry == LogAt(Caller)[Len(LogAt(Caller))]

\* a step that returns from a derived layout call adds one entry to the log
\* of the Region the call was made on and none to any other log
OneReservation ==
    (Len(stack') = Len(stack) - 1 /\ last'.op # "drop") =>
        /\ Len(stack'[Len(stack')].log[Top.parent]) = Len(Below.log[Top.parent]) + 1
        /\ SubSeq(stack'[Len(stack')].log[Top.parent], 1, Len(Below.log[Top.parent])) = Below.log[Top.parent]
        /\ \A j \in 1..Len(Below.regions) :
              j # Top.parent => /\ stack'[Len(stack')].log[j] = Below.log[j]
                                /\ stack'[Len(stack')].regions[j] = Below.regions[j]
        /\ SubSeq(stack', 1, Len(stack') - 1) = SubSeq(stack, 1, Len(stack) - 2)

\* s*(n-1) + the sum of the columns' content widths
ColumnsContent(entry, regions) ==
    entry.spacing[1] * (Len(regions) - 1) + SumWidths(regions, Len(regions))

(***************************************************************************)
(* C12.  As stated: after columns(n, ..) the parent has reserved one       *)
(* rectangle of width max(W, s*(n-1) + sum of the columns' content widths) *)
(* and of height the maximum of the columns' content heights.              *)
(***************************************************************************)
C12_RectIsMax ==
    JustReturned("columns") =>
        /\ width(Entry.rect) = Max2(Entry.at_call[1], ColumnsContent(Entry, last.popped))
        /\ height(Entry.rect) = MaxHeight(last.popped, Len(last.popped))

(***************************************************************************)
(* C12, amended.  The size columns asks the parent for is max(W, C) wide,  *)
(* C being s*(n-1) + the sum of the widths of the columns' bounding boxes, *)
(* and as high as the highest column content: C when C > W, else W.  The   *)
(* one rectangle reserved has that size rounded to the pixel grid, so it   *)
(* can be narrower than W by less than half a pixel.                       *)
(***************************************************************************)
C12_SizeIsMax ==
    JustReturned("columns") =>
        LET W == Entry.at_call[1]
            C == ColumnsContent(Entry, last.popped)
        IN  /\ Entry.size[1] = (IF C > W THEN C ELSE W)
            /\ Entry.size[2] = MaxHeight(last.popped, Len(last.popped))
            /\ \A k \in 1..Len(last.popped) :
                  Entry.size[2] >= last.popped[k].child_bounds.max[2] - last.popped[k].desired_rect.min[2]
            /\ width(Entry.rect) = round_to_pixel(Entry.size[1])
            /\ height(Entry.rect) = round_to_pixel(Entry.size[2])
            /\ last.rect = Entry.rect

C12_ColumnsReserve == [][OneReservation]_vars /\ []C12_SizeIsMax

\* columns whose content is wider than the width that was available
C12_Witness ==
    /\ JustReturned("columns")
    /\ ColumnsContent(Entry, last.popped) > Entry.at_call[1]
    /\ Entry.at_call[1] > 0
    /\ \E k \in 1..Len(last.popped) : width(last.popped[k].child_bounds) = 0

(***************************************************************************)
(* C13.  The n Regions that columns(n, ..) builds on a Region of available *)
(* width W with horizontal spacing s are vertical, each (W - s*(n-1))/n    *)
(* wide, column i starting i*(width + s) right of the parent's cursor and  *)
(* reaching down to the parent's bottom; consecutive columns are s apart,  *)
(* and the last one ends at the parent's right edge.                       *)
(***************************************************************************)
C13_ColumnsLaw ==
    \A k \in 2..Len(stack) :
        stack[k].kind = "columns" =>
            LET r  == stack[k - 1].regions[stack[k].parent]
                n  == Len(stack[k].regions)
                sp == r.style.item_spacing[1]
                W  == available_width(r)
            IN  \A i \in 1..n :
                    LET c == stack[k].regions[i].desired_rect
                    IN  /\ n * width(c) = W - sp * (n - 1)
                        /\ stack[k].regions[i].dir = "Vertical"
                        /\ c.min = VAdd(r.cursor, <<(i - 1) * (width(c) + sp), 0>>)
                        /\ c.max[2] = bottom_right(r)[2]
                        /\ i < n => /\ stack[k].regions[i + 1].desired_rect.min[1] = c.max[1] + sp
                                     /\ (width(c) >= 0 /\ sp >= 0) =>
                                            c.max[1] <= stack[k].regions[i + 1].desired_rect.min[1]
                        /\ i = n => c.max[1] = bottom_right(r)[1]
                        /\ Len(stack[k].log[i]) = 0 =>
                              stack[k].regions[i].cursor = c.min

\* columns just made on a Region whose cursor has moved, with spacing between them
C13_Witness ==
    /\ last.op = "columns" /\ last.popped = <<>> /\ Top.kind = "columns"
    /\ Len(Top.regions) = 2
    /\ Parent.style.item_spacing[1] > 0
    /\ Parent.cursor # Parent.desired_rect.min
    /\ width(Top.regions[1].desired_rect) > 0

(***************************************************************************)
(* C14.  As stated: when horizontal or vertical returns, the parent has    *)
(* reserved the child's final bounding size and its cursor has advanced    *)
(* along its direction by that extent plus one item spacing.               *)
(***************************************************************************)
C14_AdvancesByBoundingSize ==
    JustReturned("inner_layout") =>
        /\ Entry.size = bounding_size(last.popped[1])
        /\ Along(Entry.dir, Entry.after) - Along(Entry.dir, Entry.cursor) =
              Along(Entry.dir, bounding_size(last.popped[1])) + Along(Entry.dir, Entry.spacing)

(***************************************************************************)
(* C14, amended.  horizontal(align, f) and vertical(align, f) make one     *)
(* child Region of the stated direction and alignment, from the parent's   *)
(* cursor to the parent's bottom-right, and leave the parent as it is      *)
(* until f returns; then the parent makes one reservation, asking for the  *)
(* child's final bounding size, however many reservations the child made.  *)
(* The reservation rounds the parent's cursor and the size to the pixel    *)
(* grid: the cursor ends at round(cursor) + round(extent) + item spacing,  *)
(* which is cursor + extent + spacing when both lie on the pixel grid.     *)
(***************************************************************************)
ChildIs(i, dir, align) ==
    LET c == stack'[Len(stack')].regions[1]
        r == Top.regions[i]
    IN  /\ Len(stack') = Len(stack) + 1
        /\ SubSeq(stack', 1, Len(stack)) = stack
        /\ Len(stack'[Len(stack')].regions) = 1
        /\ stack'[Len(stack')].parent = i
        /\ c.dir = dir /\ c.align = align
        /\ c.desired_rect.min = r.cursor /\ c.desired_rect.max = bottom_right(r)
        /\ c.cursor = r.cursor
        /\ c.child_bounds = from_min_size(r.cursor, <<0, 0>>)

InnerBegins ==
    last'.op \in {"horizontal", "vertical"} =>
        \A i \in 1..Len(Top.regions), align \in Aligns :
            /\ Horizontal(i, align) => ChildIs(i, "Horizontal", align)
            /\ Vertical(i, align) => ChildIs(i, "Vertical", align)

C14_ReservesBoundingSize ==
    JustReturned("inner_layout") =>
        LET extent == Along(Entry.dir, bounding_size(last.popped[1]))
            before == Along(Entry.dir, Entry.cursor)
            sp     == Along(Entry.dir, Entry.spacing)
        IN  /\ Len(last.popped) = 1
            /\ Entry.size = bounding_size(last.popped[1])
            /\ Entry.size = VSub(last.popped[1].child_bounds.max, last.popped[1].desired_rect.min)
            /\ Along(Entry.dir, Entry.after) = round_to_pixel(before) + round_to_pixel(extent) + sp
            /\ (OnGrid(before) /\ OnGrid(extent)) =>
                  Along(Entry.dir, Entry.after) - before = extent + sp
            /\ RegionAt(Caller).cursor = Entry.after

C14_InnerLayout == [][InnerBegins /\ OneReservation]_vars /\ []C14_ReservesBoundingSize

\* a horizontal child with more than one widget, reserved by a vertical parent
C14_Witness ==
    /\ JustReturned("inner_layout")
    /\ last.popped[1].dir = "Horizontal" /\ Entry.dir = "Vertical"
    /\ width(last.popped[1].child_bounds) >= Pt(60)
    /\ Len(LogAt(Caller)) = 1
    /\ Along(Entry.dir, Entry.after) - Along(Entry.dir, Entry.cursor) =
          height(last.popped[1].child_bounds) + Entry.spacing[2]

PanicHasNoEffect ==
    /\ phase' = "panicked" =>
          /\ phase = "layout"
          /\ last'.op = "indent"
          /\ Top.regions[last'.region].dir # "Vertical"
          /\ stack' = stack /\ graphics' = graphics /\ memory' = memory
    /\ phase # "panicked"

C16_OnlyVerticalIndents ==
    /\ \A k \in 2..Len(stack) :
          stack[k].kind = "indent" => stack[k - 1].regions[stack[k].parent].dir = "Vertical"
    /\ JustReturned("indent") => Entry.dir = "Vertical"
    /\ phase = "panicked" => RegionAt(Caller).dir = "Horizontal"

C16_IndentAsserts == [][PanicHasNoEffect]_vars /\ []C16_OnlyVerticalIndents

\* the assertion failed on a horizontal child that holds a widget
C16_Witness ==
    /\ phase = "panicked"
    /\ last.op = "indent" /\ last.depth = 2
    /\ RegionAt(Caller).dir = "Horizontal"
    /\ Len(LogAt(Caller)) = 1
    /\ Top.kind = "inner"

(***************************************************************************)
(* C17.  As stated: when indent returns, the parent has reserved one       *)
(* rectangle of size (indent + child content width, child content height), *)
(* its cursor has advanced by the child's content height plus one item     *)
(* spacing, and its bounding box covers the indented content.              *)
(***************************************************************************)
IndentChildAt(c, entry) ==
    /\ c.desired_rect.min = VAdd(entry.cursor, <<c.style.indent, 0>>)
    /\ c.desired_rect.max = VAdd(entry.cursor, entry.at_call)

Covers(b, c) ==
    /\ b.min[1] <= c.min[1] /\ c.max[1] <= b.max[1]
    /\ b.min[2] <= c.min[2] /\ c.max[2] <= b.max[2]

C17_IndentReservesContent ==
    JustReturned("indent") =>
        LET c == last.popped[1]
        IN  /\ IndentChildAt(c, Entry)
            /\ VSub(Entry.rect.max, Entry.rect.min) = VAdd(<<c.style.indent, 0>>, bounding_size(c))
            /\ Entry.after[2] - Entry.cursor[2] = bounding_size(c)[2] + Entry.spacing[2]
            /\ Covers(RegionAt(Caller).child_bounds, c.child_bounds)

(***************************************************************************)
(* C17, amended.  indent builds its child from the parent's cursor shifted *)
(* right by the indent to the parent's bottom-right, and then makes one    *)
(* reservation in the parent, asking for (indent + child bounding width,   *)
(* child bounding height).  The reservation rounds the parent's cursor and *)
(* the size to the pixel grid: the cursor ends at round(cursor.y) +        *)
(* round(height) + item spacing, an advance of height + spacing when both  *)
(* lie on the pixel grid, and the parent's bounding box then reaches the   *)
(* far corner of the child's bounding box.                                 *)
(***************************************************************************)
C17_IndentReserves ==
    JustReturned("indent") =>
        LET c == last.popped[1]
            h == bounding_size(c)[2]
        IN  /\ Len(last.popped) = 1
            /\ IndentChildAt(c, Entry)
            /\ c.style.indent = RegionAt(Caller).style.indent
            /\ Entry.size = <<c.style.indent + bounding_size(c)[1], h>>
            /\ VSub(Entry.rect.max, Entry.rect.min) = round_vec_to_pixels(Entry.size)
            /\ Entry.after[2] = round_to_pixel(Entry.cursor[2]) + round_to_pixel(h) + Entry.spacing[2]
            /\ (OnGrid(Entry.cursor[1]) /\ OnGrid(Entry.cursor[2]) /\ OnGrid(h)
                  /\ OnGrid(Entry.size[1])) =>
                  /\ Entry.after[2] - Entry.cursor[2] = h + Entry.spacing[2]
                  /\ VSub(Entry.rect.max, Entry.rect.min) = Entry.size
                  /\ Covers(RegionAt(Caller).child_bounds, c.child_bounds)

C17_Indent == [][OneReservation]_vars /\ []C17_IndentReserves

\* an indented child that holds a widget, in a parent whose cursor had moved
C17_Witness ==
    /\ JustReturned("indent")
    /\ bounding_size(last.popped[1])[2] > 0
    /\ Len(LogAt(Caller)) = 2
    /\ Entry.after[2] - Entry.cursor[2] = bounding_size(last.popped[1])[2] + Entry.spacing[2]
    /\ width(Entry.rect) = RegionAt(Caller).style.indent + width(last.popped[1].child_bounds)

(***************************************************************************)
(* The frame loop (example_glium main.rs): begin_frame derives the input   *)
(* record from the raw snapshot, the application hit-tests the widgets it  *)
(* rebuilds, in any order and each at most once, and end_frame closes the  *)
(* frame.  The layout is fixed: a root Region, a child Region `sub` with   *)
(* a smaller clip rect, and a click-capturing window on a higher layer.    *)
(*   A  in the root; B in the root, overlapping A, partly under the window;*)
(*   C  in sub, below sub's clip rect; W is sub itself (interact_whole).   *)
(***************************************************************************)
RectPt(x0, y0, x1, y1) == from_min_max(<<Pt(x0), Pt(y0)>>, <<Pt(x1), Pt(y1)>>)

HitWidgets == {"A", "B", "C", "W"}

RectWidgets == {"A", "B", "C"}

SubRect == RectPt(200, 0, 300, 100)

WindowRect == RectPt(150, 20, 195, 70)

WidgetRect(w) ==
    CASE w = "A" -> RectPt(10, 10, 110, 40)
      [] w = "B" -> RectPt(100, 30, 190, 60)
      [] w = "C" -> RectPt(200, 150, 300, 180)
      [] w = "W" -> SubRect

WidgetRegion(w) == IF w \in {"A", "B"} THEN stack[1].regions[1] ELSE stack[2].regions[1]

WidgetId(w) == IF w = "W" THEN WidgetRegion(w).id ELSE make_child_id(WidgetRegion(w), w)

\* in A only, in A and B, in B only, in B under the window, in C, in sub
PointerPositions ==
    { <<Pt(20), Pt(20)>>, <<Pt(105), Pt(35)>>, <<Pt(120), Pt(50)>>, <<Pt(160), Pt(50)>>,
      <<Pt(250), Pt(160)>>, <<Pt(250), Pt(50)>> }

RawInputs ==
    { RawInput(down, pos, 1) : down \in BOOLEAN, pos \in {None} \cup {Some(p) : p \in PointerPositions} }

InitInteract ==
    /\ style = [item_spacing |-> <<Pt(8), Pt(4)>>, indent |-> Pt(21), debug_regions |-> FALSE]
    /\ last_raw = RawInput(FALSE, None, 1)
    /\ input = from_last_and_new(last_raw, last_raw)
    /\ memory = [active_id |-> None]
    /\ capture = { [layer |-> "Popup", rect |-> WindowRect] }
    /\ graphics = [l \in Layers |-> <<>>]
    /\ \E root \in {Region_new("Background", RootId, BigRect)} :
          stack = << Frame("root", 0, <<root>>, NoAux),
                     Frame("custom", 1,
                           <<[child_region(root, SubRect) EXCEPT !.id = make_child_id(root, "sub")]>>,
                           NoAux) >>
    /\ ops = 0
    /\ locks = NoLocks
    /\ last = Last("new", 1, 1, NoRect, NoInfo)
    /\ phase = "idle"
    /\ tested = <<>>
    /\ hist = [prev_raw |-> last_raw, pressed_on |-> None, held |-> FALSE, edge |-> "none"]

\* begin_frame(new_input); hist.edge is the latest edge that the input
\* records of the frames before this one reported
BeginFrame(raw) ==
    /\ phase = "idle"
    /\ input' = from_last_and_new(last_raw, raw)
    /\ last_raw' = raw
    /\ tested' = <<>>
    /\ phase' = "frame"
    /\ hist' = [hist EXCEPT !.prev_raw = last_raw,
                             !.pressed_on = IF ~last_raw.mouse_down /\ raw.mouse_down THEN None ELSE @,
                             !.edge = CASE input.mouse_pressed -> "press"
                                        [] input.mouse_released -> "release"
                                        [] OTHER -> @]
    /\ last' = Last("begin_frame", 1, 1, NoRect, NoInfo)
    /\ UNCHANGED <<style, locks, memory, capture, graphics, stack, ops>>

\* the raw snapshots of the previous and of this frame: button went down / went up
RawPressEdge == ~hist.prev_raw.mouse_down /\ last_raw.mouse_down

RawReleaseEdge == hist.prev_raw.mouse_down /\ ~last_raw.mouse_down

\* the raw pointer is on the visible, uncovered part of widget w
PointerOver(w) ==
    /\ last_raw.mouse_pos # None
    /\ RectInside(intersect(WidgetRegion(w).clip_rect, WidgetRect(w)),
                  from_min_size(last_raw.mouse_pos[1], <<0, 0>>))
    /\ \A c \in capture :
          Rank(c.layer) > Rank(WidgetRegion(w).layer) => ~contains(c.rect, last_raw.mouse_pos[1])

\* the hit test hit was made for widget w; hist records the first widget
\* under the pointer that was tested in the frame of the press
Tested(w, hit) ==
    /\ memory' = [memory EXCEPT !.active_id = hit.active_id]
    /\ tested' = [x \in DOMAIN tested \cup {w} |-> IF x = w THEN hit.info ELSE tested[x]]
    /\ \E took \in {RawPressEdge /\ PointerOver(w) /\ hist.pressed_on = None} :
          hist' = [hist EXCEPT !.pressed_on = IF took THEN Some(WidgetId(w)) ELSE @,
                               !.held = took \/ @]
    /\ last' = Last("interact", 1, 1, hit.info.rect, hit.info)
    /\ UNCHANGED <<style, locks, input, last_raw, capture, graphics, stack, ops, phase>>

\* interact_rect(rect, id) on the Region of widget w
InteractRect(w) ==
    /\ phase = "frame"
    /\ w \notin DOMAIN tested
    /\ \E hit \in {interact_rect(WidgetRegion(w), WidgetRect(w), WidgetId(w))} : Tested(w, hit)

\* interact_whole() on sub
InteractWhole ==
    /\ phase = "frame"
    /\ "W" \notin DOMAIN tested
    /\ \E hit \in {interact_whole(WidgetRegion("W"))} : Tested("W", hit)

\* end_frame: a release edge clears the active id
ActiveAtEnd == IF input.mouse_released THEN None ELSE memory.active_id

EndFrame ==
    /\ phase = "frame"
    /\ phase' = "idle"
    /\ memory' = [memory EXCEPT !.active_id = ActiveAtEnd]
    /\ last' = Last("end_frame", 1, 1, NoRect, NoInfo)
    /\ hist' = [hist EXCEPT !.held = @ /\ ~RawReleaseEdge]
    /\ UNCHANGED <<style, locks, input, last_raw, capture, graphics, stack, ops, tested>>

NextInteract ==
    \/ \E raw \in RawInputs : BeginFrame(raw)
    \/ \E w \in RectWidgets : InteractRect(w)
    \/ InteractWhole
    \/ EndFrame

SpecInteract == InitInteract /\ [][NextInteract]_vars

(***************************************************************************)
(* Properties of the frame loop.                                           *)
(***************************************************************************)
PointerAtPt(x, y) == last_raw.mouse_pos = Some(<<Pt(x), Pt(y)>>)

\* C5: from the press that made an id active until the frame of the next
\* release edge has ended, the active id is that id, and a hit test reports
\* active exactly for it, wherever the pointer is and whatever is tested.
C5_ActiveUntilRelease ==
    hist.held =>
        /\ hist.pressed_on # None
        /\ memory.active_id = hist.pressed_on
        /\ \A w \in DOMAIN tested : tested[w].active <=> (Some(WidgetId(w)) = hist.pressed_on)

\* pressed on A, pointer dragged into B only: A is tested active, B hovered and not active
C5_Witness ==
    /\ phase = "frame" /\ hist.held /\ ~RawPressEdge /\ ~RawReleaseEdge
    /\ hist.pressed_on = Some(WidgetId("A"))
    /\ PointerAtPt(120, 50)
    /\ DOMAIN tested = {"A", "B"}
    /\ tested["A"].active /\ ~tested["A"].hovered
    /\ tested["B"].hovered /\ ~tested["B"].active

\* C6: a hit test reports clicked exactly when the frame has a release edge,
\* the id was the one pressed while hovered, and the pointer is over the
\* widget in the frame of the release.
C6_ClickLaw ==
    \A w \in DOMAIN tested :
        tested[w].clicked <=>
            /\ RawReleaseEdge
            /\ hist.pressed_on = Some(WidgetId(w))
            /\ PointerOver(w)

\* pressed on B, released on the part of B that A overlaps: B is clicked, A is not
C6_Witness ==
    /\ phase = "frame" /\ RawReleaseEdge
    /\ PointerAtPt(105, 35)
    /\ DOMAIN tested = {"A", "B"}
    /\ tested["B"].clicked
    /\ tested["A"].hovered /\ ~tested["A"].clicked

\* C7: after a frame with a release edge no id is active.
C7_ReleaseClears ==
    (phase = "idle" /\ RawReleaseEdge) => memory.active_id = None

\* pressed on A, released outside A in a frame that did not test A
C7_Witness ==
    /\ phase = "idle" /\ RawReleaseEdge
    /\ hist.pressed_on = Some(WidgetId("A"))
    /\ PointerAtPt(250, 50)
    /\ DOMAIN tested = {"W"}
    /\ memory.active_id = None

\* C8: a hit test reports hovered only with the pointer defined, inside the
\* Region's clip rect and the tested rect, and not under a click-capturing
\* element of a higher layer; with the pointer unknown nothing is hovered
\* and a press makes nothing active, and a widget outside the clip rect is
\* never hovered and never active.
C8_HoverNeedsVisiblePointer ==
    /\ \A w \in DOMAIN tested : tested[w].hovered => PointerOver(w)
    /\ last_raw.mouse_pos = None =>
          /\ \A w \in DOMAIN tested : ~tested[w].hovered
          /\ RawPressEdge => memory.active_id = None
    /\ "C" \in DOMAIN tested => ~tested["C"].hovered
    /\ memory.active_id # Some(WidgetId("C"))

\* a press on C's rectangle, which sub clips away
C8_Witness ==
    /\ phase = "frame" /\ RawPressEdge
    /\ PointerAtPt(250, 160)
    /\ "C" \in DOMAIN tested
    /\ contains(WidgetRect("C"), last_raw.mouse_pos[1])
    /\ ~tested["C"].hovered
    /\ memory.active_id = None

(***************************************************************************)
(* Painting.  Three Regions are alive: a root on the background layer, a   *)
(* child of it with a narrower clip rect, and the root of a floating       *)
(* window on the popup layer.  Any of them paints at any time; hist keeps  *)
(* what was emitted, in the order of the calls.                            *)
(***************************************************************************)
PaintCmds == { PaintRect(RectPt(0, 0, 10, 10)), line_segment(<<Pt(1), Pt(2)>>, <<Pt(3), Pt(4)>>) }

PaintBatches == { << line_segment(<<0, 0>>, <<Pt(5), Pt(5)>>), PaintRect(RectPt(0, 0, 10, 10)) >> }

InitPaint ==
    /\ style = [item_spacing |-> <<Pt(8), Pt(4)>>, indent |-> Pt(21), debug_regions |-> FALSE]
    /\ last_raw = RawInput(FALSE, None, 1)
    /\ input = from_last_and_new(last_raw, last_raw)
    /\ memory = [active_id |-> None]
    /\ capture = { [layer |-> "Popup", rect |-> WindowRect] }
    /\ graphics = [l \in Layers |-> <<>>]
    /\ \E root \in {Region_new("Background", RootId, BigRect)} :
          stack = << Frame("root", 0,
                           <<root, Region_new("Popup", make_child_id(root, "window"), WindowRect)>>,
                           NoAux),
                     Frame("custom", 1, <<child_region(root, SubRect)>>, NoAux) >>
    /\ ops = 0
    /\ locks = NoLocks
    /\ last = Last("new", 1, 1, NoRect, NoInfo)
    /\ phase = "paint"
    /\ tested = <<>>
    /\ hist = [emitted |-> <<>>, inserted |-> {}]

Emission(r, cmd) == [layer |-> r.layer, clip_rect |-> r.clip_rect, cmd |-> cmd]

\* variant of add_paint_cmd: the command goes to the front of the list
add_paint_cmd_Front(g, r, paint_cmd) ==
    [g EXCEPT ![r.layer] = <<<<r.clip_rect, paint_cmd>>>> \o @]

add_paint_cmd(g, r, paint_cmd) ==
    [g EXCEPT ![r.layer] = Append(@, <<r.clip_rect, paint_cmd>>)]

add_paint_cmds(g, r, cmds) == Painted(g, r, cmds)

\* variant of insert_paint_cmd: the command takes the place of the entry at pos
insert_paint_cmd_Overwrite(g, r, pos, paint_cmd) ==
    [g EXCEPT ![r.layer] =
        SubSeq(@, 1, pos) \o <<<<r.clip_rect, paint_cmd>>>> \o SubSeq(@, pos + 2, Len(@))]

insert_paint_cmd(g, r, pos, paint_cmd) ==
    [g EXCEPT ![r.layer] =
        SubSeq(@, 1, pos) \o <<<<r.clip_rect, paint_cmd>>>> \o SubSeq(@, pos + 1, Len(@))]

CanPaint == phase = "paint" /\ ops < MaxOps

PaintStep(op, p) ==
    /\ ops' = ops + 1
    /\ last' = Last(op, p[1], p[2], NoRect, NoInfo)
    /\ UNCHANGED <<style, locks, input, last_raw, memory, capture, stack, phase, tested>>

AddPaintCmd(p, cmd) ==
    /\ CanPaint
    /\ graphics' = add_paint_cmd(graphics, RegionAt(p), cmd)
    /\ hist' = [hist EXCEPT !.emitted = Append(@, Emission(RegionAt(p), cmd))]
    /\ PaintStep("add_paint_cmd", p)

AddPaintCmds(p, cmds) ==
    /\ CanPaint
    /\ graphics' = add_paint_cmds(graphics, RegionAt(p), cmds)
    /\ hist' = [hist EXCEPT !.emitted = @ \o [i \in 1..Len(cmds) |-> Emission(RegionAt(p), cmds[i])]]
    /\ PaintStep("add_paint_cmds", p)

\* insert_paint_cmd(pos, cmd): pos beyond the list is a panic of Vec::insert
InsertPaintCmd(p, pos, cmd) ==
    /\ CanPaint
    /\ pos <= Len(graphics[RegionAt(p).layer])
    /\ graphics' = insert_paint_cmd(graphics, RegionAt(p), pos, cmd)
    /\ hist' = [hist EXCEPT !.inserted = @ \cup {RegionAt(p).layer}]
    /\ PaintStep("insert_paint_cmd", p)

NextPaint ==
    \/ \E p \in Live, cmd \in PaintCmds : AddPaintCmd(p, cmd)
    \/ \E p \in Live, cmds \in PaintBatches : AddPaintCmds(p, cmds)
    \/ \E p \in Live, pos \in 0..MaxOps : InsertPaintCmd(p, pos, PaintRect(SubRect))

SpecPaint == InitPaint /\ [][NextPaint]_vars

\* the (clip rect, command) pairs among the first k emissions that went to layer l
RECURSIVE EmittedTo(_, _, _)
EmittedTo(emitted, k, l) ==
    IF k = 0 THEN <<>>
    ELSE EmittedTo(emitted, k - 1, l)
         \o (IF emitted[k].layer = l THEN << <<emitted[k].clip_rect, emitted[k].cmd>> >> ELSE <<>>)

(***************************************************************************)
(* C18.  A layer that only add_paint_cmd and add_paint_cmds have written   *)
(* to holds exactly the commands emitted to it, in the order of the calls, *)
(* each with the clip rect of the Region that emitted it, and none of the  *)
(* commands emitted to the other layer.                                    *)
(***************************************************************************)
C18_CallOrder ==
    \A l \in Layers :
        l \notin hist.inserted => graphics[l] = EmittedTo(hist.emitted, Len(hist.emitted), l)

\* the root, the window, then the root's child: two layers, two clip rects
C18_Witness ==
    /\ hist.inserted = {}
    /\ Len(hist.emitted) = 3
    /\ hist.emitted[2].layer = "Popup"
    /\ Len(graphics["Background"]) = 2 /\ Len(graphics["Popup"]) = 1
    /\ graphics["Background"][1][1] = RegionAt(<<1, 1>>).clip_rect
    /\ graphics["Background"][2][1] = RegionAt(<<2, 1>>).clip_rect
    /\ graphics["Background"][1][1] # graphics["Background"][2][1]

(***************************************************************************)
(* The locks of the context.  The mutexes are not reentrant: an operation  *)
(* that locks a mutex whose guard the running frame still holds never      *)
(* returns.  Region::memory and Region::output return the guard; the       *)
(* other operations lock, work and unlock before they return.              *)
(***************************************************************************)
FocusIds == { make_child_id(Region_new("Background", RootId, BigRect), "text") }

InitLocks ==
    /\ style = [item_spacing |-> <<Pt(8), Pt(4)>>, indent |-> Pt(21), debug_regions |-> TRUE]
    /\ last_raw = RawInput(FALSE, None, 1)
    /\ input = from_last_and_new(last_raw, last_raw)
    /\ memory = [active_id |-> None, kb_focus_id |-> None]
    /\ capture = {}
    /\ graphics = [l \in Layers |-> <<>>]
    /\ stack = << Frame("root", 0, <<Region_new("Background", RootId, BigRect)>>, NoAux) >>
    /\ ops = 0
    /\ locks = NoLocks
    /\ last = Last("new", 1, 1, NoRect, NoInfo)
    /\ phase = "layout"
    /\ tested = <<>>
    /\ hist = <<>>

\* the mutexes whose guard a Region hands out
Guarded == {"memory", "output"}

\* the call never returns: the frame is stuck
Blocked(op) ==
    /\ phase' = "blocked"
    /\ last' = Last(op, Len(stack), 1, NoRect, NoInfo)
    /\ UNCHANGED <<style, locks, input, last_raw, memory, capture, graphics, stack, ops, tested, hist>>

\* Region::memory() and Region::output(): lock and hand the guard to the caller
TakeGuard(m) ==
    /\ phase = "layout"
    /\ IF locks[m]
       THEN Blocked(m)
       ELSE /\ locks' = [locks EXCEPT ![m] = TRUE]
            /\ last' = Last(m, Len(stack), 1, NoRect, NoInfo)
            /\ UNCHANGED <<style, input, last_raw, memory, capture, graphics, stack, ops, phase, tested, hist>>

\* the caller lets go of a guard
DropGuard(m) ==
    /\ phase = "layout"
    /\ locks[m]
    /\ locks' = [locks EXCEPT ![m] = FALSE]
    /\ last' = Last("drop", Len(stack), 1, NoRect, NoInfo)
    /\ UNCHANGED <<style, input, last_raw, memory, capture, graphics, stack, ops, phase, tested, hist>>

\* has_kb_focus(id): locks the memory for the comparison
HasKbFocus(id) ==
    /\ phase = "layout"
    /\ IF locks["memory"]
       THEN Blocked("has_kb_focus")
       ELSE /\ last' = [Last("has_kb_focus", Len(stack), 1, NoRect, NoInfo) EXCEPT
                            !.info.active = (memory.kb_focus_id = Some(id))]
            /\ UNCHANGED <<style, locks, input, last_raw, memory, capture, graphics, stack, ops, phase, tested, hist>>

\* request_kb_focus(id): locks the memory for the assignment
RequestKbFocus(id) ==
    /\ phase = "layout"
    /\ IF locks["memory"]
       THEN Blocked("request_kb_focus")
       ELSE /\ memory' = [memory EXCEPT !.kb_focus_id = Some(id)]
            /\ last' = Last("request_kb_focus", Len(stack), 1, NoRect, NoInfo)
            /\ UNCHANGED <<style, locks, input, last_raw, capture, graphics, stack, ops, phase, tested, hist>>

\* a call that locks mutex m on its way (the paint list, the hit test)
Locking(m, op, can, call) ==
    IF locks[m] THEN can /\ Blocked(op) ELSE call

NextLocks ==
    \/ \E m \in Guarded : TakeGuard(m)
    \/ \E m \in Guarded : DropGuard(m)
    \/ \E id \in FocusIds : HasKbFocus(id)
    \/ \E id \in FocusIds : RequestKbFocus(id)
    \/ \E w \in Widgets :
          Locking("memory", "reserve_space", CanCall, ReserveSpace(1, w.size, w.interactive))
    \/ \E align \in VerticalAligns : Vertical(1, align)
    \/ Locking("memory", "inner_layout", CanReturn("inner"), EndInner)

SpecLocks == InitLocks /\ [][NextLocks]_vars

(***************************************************************************)
(* C19.  As stated: when an operation on a Region has returned, no mutex   *)
(* of the context is held, also not while a closure runs, and no operation *)
(* blocks on a mutex that the frame already holds.                         *)
(***************************************************************************)
C19_NoLockOutlivesItsCall ==
    /\ \A m \in Mutexes : ~locks[m]
    /\ phase # "blocked"

(***************************************************************************)
(* C20.  As stated: in the input record of every frame mouse_down holds    *)
(* only with a known pointer position, holds when mouse_pressed holds, and *)
(* does not hold when mouse_released holds.                                *)
(***************************************************************************)
C20_DownAgreesWithEdges ==
    /\ input.mouse_down => input.mouse_pos # None
    /\ input.mouse_pressed => input.mouse_down
    /\ input.mouse_released => ~input.mouse_down

(***************************************************************************)
(* C21.  The input record of a frame has mouse_pressed exactly when the    *)
(* raw button was up in the previous snapshot and is down in this one, and *)
(* mouse_released exactly when it was down and is up; the two are never    *)
(* both set, and over the frames press and release edges alternate,        *)
(* starting with a press.                                                  *)
(***************************************************************************)
C21_EdgesAlternate ==
    /\ input.mouse_pressed <=> RawPressEdge
    /\ input.mouse_released <=> RawReleaseEdge
    /\ ~(input.mouse_pressed /\ input.mouse_released)
    /\ input.mouse_pressed => hist.edge # "press"
    /\ input.mouse_released => hist.edge = "press"

\* a second press, after a release, with the pointer unknown in both frames
\* of the second press
C21_Witness ==
    /\ phase = "frame"
    /\ input.mouse_pressed /\ ~input.mouse_down
    /\ hist.edge = "release"
    /\ hist.prev_raw.mouse_pos = None /\ last_raw.mouse_pos = None

(***************************************************************************)
(* Ids over two frames.  The application rebuilds the same root Region     *)
(* (same Id, same rect) in two consecutive frames and makes the same calls *)
(* in both; between the frames the style and the pixel ratio may change    *)
(* (the settings window edits the style, the host reports a new ratio).    *)
(* The registry of unique ids lives in the context and is emptied when a   *)
(* frame begins.  hist.got[f] lists what the calls of frame f obtained.    *)
(***************************************************************************)
IdRect == SmallRect

Spacings == { <<Pt(8), Pt(4)>>, <<Pt(8), Pt(6)>> }

PixelRatios == { 1, 2 }

UniqueSources == { "a", "b" }

IdSizes == { w.size : w \in Widgets }

NoUniqueIds == [used_ids |-> {}, warnings |-> <<>>]

InitIds ==
    /\ style = [item_spacing |-> <<Pt(8), Pt(4)>>, indent |-> Pt(21), debug_regions |-> FALSE]
    /\ last_raw = RawInput(FALSE, None, 1)
    /\ input = from_last_and_new(last_raw, last_raw)
    /\ memory = [active_id |-> None] @@ NoUniqueIds
    /\ capture = {}
    /\ graphics = [l \in Layers |-> <<>>]
    /\ stack = << Frame("root", 0, <<Region_new("Background", RootId, IdRect)>>, NoAux) >>
    /\ ops = 0
    /\ locks = NoLocks
    /\ last = Last("new", 1, 1, NoRect, NoInfo)
    /\ phase = "layout"
    /\ tested = <<>>
    /\ hist = [frame |-> 1, got |-> << <<>>, <<>> >>,
               styles |-> << [spacing |-> style.item_spacing, ppp |-> 1] >>]

\* Context::register_unique_id: the id is entered in the registry of the
\* frame; an id that is already there gets a warning at pos; the id is
\* returned in both cases
register_unique_id(mem, id, pos) ==
    [ id     |-> id,
      memory |-> [mem EXCEPT !.used_ids = @ \cup {id},
                             !.warnings = IF id \in mem.used_ids
                                          THEN Append(@, [id |-> id, pos |-> pos])
                                          ELSE @] ]

\* variant: the id is made and never entered in the registry
make_unique_id_Unregistered(r, mem, id_source) ==
    [id |-> With(r.id, id_source), memory |-> mem]

make_unique_id(r, mem, id_source) == register_unique_id(mem, With(r.id, id_source), r.cursor)

\* what a call obtained, and the Region it was made on as the call found it
Got(op, arg, r, id, warned) ==
    [op |-> op, arg |-> arg, region_id |-> r.id, cursor |-> r.cursor, id |-> id, warned |-> warned]

\* the second frame repeats the calls of the first
CanCallId(op, arg) ==
    /\ phase = "layout"
    /\ \E k \in {Len(hist.got[hist.frame]) + 1} :
          IF hist.frame = 1
          THEN ops < MaxOps
          ELSE /\ k <= Len(hist.got[1])
               /\ hist.got[1][k].op = op
               /\ hist.got[1][k].arg = arg

Obtained(op, arg, r, id, warned) ==
    /\ hist' = [hist EXCEPT !.got[hist.frame] = Append(@, Got(op, arg, r, id, warned))]
    /\ ops' = ops + 1
    /\ UNCHANGED <<style, locks, input, last_raw, capture, phase, tested>>

\* make_position_id()
MakePositionId ==
    /\ CanCallId("make_position_id", <<>>)
    /\ Obtained("make_position_id", <<>>, Top.regions[1], make_position_id(Top.regions[1]), FALSE)
    /\ last' = Last("make_position_id", 1, 1, NoRect, NoInfo)
    /\ UNCHANGED <<memory, graphics, stack>>

\* make_child_id(id_seed)
MakeChildId(id_seed) ==
    /\ CanCallId("make_child_id", <<id_seed>>)
    /\ Obtained("make_child_id", <<id_seed>>, Top.regions[1], make_child_id(Top.regions[1], id_seed), FALSE)
    /\ last' = Last("make_child_id", 1, 1, NoRect, NoInfo)
    /\ UNCHANGED <<memory, graphics, stack>>

\* make_unique_id(id_source)
MakeUniqueId(id_source) ==
    /\ CanCallId("make_unique_id", <<id_source>>)
    /\ \E got \in {make_unique_id(Top.regions[1], memory, id_source)} :
          /\ memory' = got.memory
          /\ Obtained("make_unique_id", <<id_source>>, Top.regions[1], got.id,
                      Len(got.memory.warnings) > Len(memory.warnings))
    /\ last' = Last("make_unique_id", 1, 1, NoRect, NoInfo)
    /\ UNCHANGED <<graphics, stack>>

\* a widget with a position id (Button::ui): make_position_id(), then
\* reserve_space(size, Some(id))
PositionWidget(size) ==
    /\ CanCallId("reserve_space", size)
    /\ ExactReserve(Top.regions[1], size)
    /\ \E r \in {Top.regions[1]} :
       \E id \in {make_position_id(r)} :
       \E res \in {reserve_space(r, size)} :
       \E hit \in {interact(r.layer, r.clip_rect, res.rect, Some(id))} :
          /\ stack' = [stack EXCEPT ![1] = Reserved(Top, 1, size, res)]
          /\ graphics' = Painted(graphics, r, res.cmds)
          /\ memory' = [memory EXCEPT !.active_id = hit.active_id]
          /\ last' = Last("reserve_space", 1, 1, res.rect, hit.info)
          /\ Obtained("reserve_space", size, r, id, FALSE)

\* end_frame, a change of style or pixel ratio, begin_frame, and the root
\* Region made anew with the same Id and rect
SecondFrame(spacing, ppp) ==
    /\ phase = "layout"
    /\ hist.frame = 1
    /\ Len(hist.got[1]) > 0
    /\ style' = [style EXCEPT !.item_spacing = spacing]
    /\ last_raw' = RawInput(FALSE, None, ppp)
    /\ input' = from_last_and_new(last_raw, last_raw')
    /\ memory' = [active_id |-> None] @@ NoUniqueIds
    /\ graphics' = [l \in Layers |-> <<>>]
    /\ stack' = << Frame("root", 0,
                         <<[Region_new("Background", RootId, IdRect) EXCEPT !.style = style']>>,
                         NoAux) >>
    /\ ops' = 0
    /\ hist' = [hist EXCEPT !.frame = 2,
                            !.styles = Append(@, [spacing |-> spacing, ppp |-> ppp])]
    /\ last' = Last("begin_frame", 1, 1, NoRect, NoInfo)
    /\ UNCHANGED <<locks, capture, phase, tested>>

NextIds ==
    \/ MakePositionId
    \/ \E id_seed \in IdSources : MakeChildId(id_seed)
    \/ \E id_source \in UniqueSources : MakeUniqueId(id_source)
    \/ \E size \in IdSizes : PositionWidget(size)
    \/ \E spacing \in Spacings, ppp \in PixelRatios : SecondFrame(spacing, ppp)

SpecIds == InitIds /\ [][NextIds]_vars

(***************************************************************************)
(* Properties of the ids.                                                  *)
(***************************************************************************)
PositionOps == {"make_position_id", "reserve_space"}

IdOps == {"make_position_id", "make_child_id", "make_unique_id"}

SameSettings == hist.frame = 2 /\ hist.styles[1] = hist.styles[2]

C22_IdsDetermined ==
    /\ \A f, g \in 1..2 : \A j \in DOMAIN hist.got[f], k \in DOMAIN hist.got[g] :
          LET a == hist.got[f][j]
              b == hist.got[g][k]
          IN  /\ (a.op \in PositionOps /\ b.op \in PositionOps
                    /\ a.region_id = b.region_id /\ a.cursor = b.cursor) => a.id = b.id
              /\ (a.op = b.op /\ a.op \notin PositionOps
                    /\ a.region_id = b.region_id /\ a.arg = b.arg) => a.id = b.id
    /\ SameSettings =>
          \A k \in DOMAIN hist.got[2] : hist.got[2][k].id = hist.got[1][k].id

\* C22: the calls that make an id leave the Region, its cursor and its
\* bounding box as they were.
IdCallsKeepRegion ==
    (last'.op \in IdOps /\ hist'.frame = hist.frame) => Top' = Top

Warned(f) == { k \in DOMAIN hist.got[f] : hist.got[f][k].warned }

\* C23: make_unique_id returns the Region's Id folded with the source,
\* whether or not the Id was made before; the call is warned about exactly
\* when an earlier make_unique_id call of the same frame obtained the same
\* Id, so the first call of a frame for an Id is not; each such call adds one
\* warning to those of the frame; and the frame goes on.
C23_CollisionWarns ==
    /\ phase = "layout"
    /\ \A f \in 1..hist.frame : \A k \in DOMAIN hist.got[f] :
          LET e == hist.got[f][k]
          IN  e.op = "make_unique_id" =>
                 /\ e.id = With(e.region_id, e.arg[1])
                 /\ e.warned <=> \E j \in 1..(k - 1) :
                                     /\ hist.got[f][j].op = "make_unique_id"
                                     /\ hist.got[f][j].id = e.id
    /\ \A f \in 1..hist.frame : \A k \in DOMAIN hist.got[f] :
          hist.got[f][k].op # "make_unique_id" => ~hist.got[f][k].warned
    /\ Len(memory.warnings) = Cardinality(Warned(hist.frame))
    /\ \A w \in DOMAIN memory.warnings : memory.warnings[w].id \in memory.used_ids

\* in the second frame the source used twice in the first is used twice
\* again: the first use is not warned about, the second is, both obtain the
\* same Id, and a widget is added after them
C23_Witness ==
    /\ hist.frame = 2
    /\ Len(hist.got[2]) = 3
    /\ hist.got[2][1].op = "make_unique_id" /\ ~hist.got[2][1].warned
    /\ hist.got[2][2].op = "make_unique_id" /\ hist.got[2][2].warned
    /\ hist.got[2][1].id = hist.got[2][2].id
    /\ hist.got[2][1].id \in { e.id : e \in { hist.got[1][k] : k \in DOMAIN hist.got[1] } }
    /\ hist.got[2][3].op = "reserve_space"
    /\ Len(memory.warnings) = 1

(***************************************************************************)
(* The host applies the output record (emigui_glium lib.rs, example_glium  *)
(* main.rs).  end_frame hands the host the output record of the frame;     *)
(* handle_output opens the URL, writes the clipboard and sets the cursor.  *)
(* The browser and the clipboard are collaborators that may fail: whether  *)
(* they do is an input of the call.  hist is the host: whether it has a    *)
(* clipboard (init_clipboard), the clipboard's text, the URL the browser   *)
(* shows and the cursor of the window.                                     *)
(***************************************************************************)
CursorIcons == {"Default", "PointingHand", "ResizeNwSe", "Text"}

Urls == { None, Some("https://a") }

CopiedTexts == { "", "copied" }

Outputs ==
    { [cursor_icon |-> c, open_url |-> u, copied_text |-> t] :
        c \in CursorIcons, u \in Urls, t \in CopiedTexts }

DefaultOutput == [cursor_icon |-> "Default", open_url |-> None, copied_text |-> ""]

translate_cursor(cursor_icon) ==
    CASE cursor_icon = "Default"      -> "MouseCursor::Default"
      [] cursor_icon = "PointingHand" -> "MouseCursor::Hand"
      [] cursor_icon = "ResizeNwSe"   -> "MouseCursor::NwseResize"
      [] cursor_icon = "Text"         -> "MouseCursor::Text"

InitOutput ==
    /\ style = [item_spacing |-> <<Pt(8), Pt(4)>>, indent |-> Pt(21), debug_regions |-> FALSE]
    /\ last_raw = RawInput(FALSE, None, 1)
    /\ input = from_last_and_new(last_raw, last_raw)
    /\ memory = [active_id |-> None, output |-> DefaultOutput]
    /\ capture = {}
    /\ graphics = [l \in Layers |-> <<>>]
    /\ stack = << Frame("root", 0, <<Region_new("Background", RootId, BigRect)>>, NoAux) >>
    /\ ops = 0
    /\ locks = NoLocks
    /\ last = [op |-> "new", calls |-> <<>>, errors |-> <<>>, before |-> <<>>]
    /\ phase = "frame"
    /\ tested = <<>>
    /\ \E available \in BOOLEAN :
          hist = [clipboard |-> IF available THEN Some("") ELSE None,
                  browser   |-> None,
                  cursor    |-> translate_cursor("Default")]

\* what a call of handle_output did: the host afterwards, the collaborator
\* calls made in order, and the errors printed
Handled(host, calls, errors) == [host |-> host, calls |-> calls, errors |-> errors]

\* the steps of handle_output, each continuing from what the one before did
open_url_step(output, h, url_fails) ==
    IF output.open_url # None
    THEN Handled(IF url_fails THEN h.host ELSE [h.host EXCEPT !.browser = output.open_url],
                 Append(h.calls, "webbrowser::open"),
                 IF url_fails THEN Append(h.errors, "Failed to open url") ELSE h.errors)
    ELSE h

copy_step(output, h, clip_fails) ==
    IF output.copied_text # "" /\ h.host.clipboard # None
    THEN Handled(IF clip_fails THEN h.host
                 ELSE [h.host EXCEPT !.clipboard = Some(output.copied_text)],
                 Append(h.calls, "set_contents"),
                 IF clip_fails THEN Append(h.errors, "Copy/Cut error") ELSE h.errors)
    ELSE h

cursor_step(output, h) ==
    Handled([h.host EXCEPT !.cursor = translate_cursor(output.cursor_icon)],
            Append(h.calls, "set_cursor"), h.errors)

\* variant: an error ends the call
handle_output_StopsAtError(output, host, url_fails, clip_fails) ==
    LET u == open_url_step(output, Handled(host, <<>>, <<>>), url_fails)
        c == copy_step(output, u, clip_fails)
    IN  IF u.errors # <<>> THEN u
        ELSE IF c.errors # <<>> THEN c
        ELSE cursor_step(output, c)

handle_output(output, host, url_fails, clip_fails) ==
    cursor_step(output,
        copy_step(output,
            open_url_step(output, Handled(host, <<>>, <<>>), url_fails),
            clip_fails))

\* end_frame: the host takes the output record the frame produced
EndFrameOutput(output) ==
    /\ phase = "frame"
    /\ memory' = [memory EXCEPT !.output = output]
    /\ phase' = "output"
    /\ last' = [op |-> "end_frame", calls |-> <<>>, errors |-> <<>>, before |-> hist]
    /\ UNCHANGED <<style, locks, input, last_raw, capture, graphics, stack, ops, tested, hist>>

\* handle_output(output, display, clipboard), then the next frame begins
HandleOutput(url_fails, clip_fails) ==
    /\ phase = "output"
    /\ \E h \in {handle_output(memory.output, hist, url_fails, clip_fails)} :
          /\ hist' = h.host
          /\ last' = [op |-> "handle_output", calls |-> h.calls, errors |-> h.errors, before |-> hist]
    /\ phase' = "frame"
    /\ UNCHANGED <<style, locks, input, last_raw, memory, capture, graphics, stack, ops, tested>>

NextOutput ==
    \/ \E output \in Outputs : EndFrameOutput(output)
    \/ \E url_fails, clip_fails \in BOOLEAN : HandleOutput(url_fails, clip_fails)

SpecOutput == InitOutput /\ [][NextOutput]_vars

Called(step) == \E k \in DOMAIN last.calls : last.calls[k] = step

\* C24: once handle_output has run, the clipboard was written exactly when
\* copied_text is not empty and the host has a clipboard, the URL was opened
\* exactly when open_url is set, and the cursor of the window is the one
\* asked for; a step that failed printed its error and left its collaborator
\* as it was, and the steps after it ran none the less.
C24_OutputApplied ==
    last.op = "handle_output" =>
        /\ Called("set_contents") <=> (memory.output.copied_text # "" /\ last.before.clipboard # None)
        /\ Called("webbrowser::open") <=> memory.output.open_url # None
        /\ Called("set_cursor")
        /\ last.calls[Len(last.calls)] = "set_cursor"
        /\ hist.cursor = translate_cursor(memory.output.cursor_icon)
        /\ Len(last.errors) <= Len(last.calls) - 1
        /\ hist.clipboard \in {last.before.clipboard, Some(memory.output.copied_text)}
        /\ hist.browser \in {last.before.browser, memory.output.open_url}
        /\ (hist.clipboard # last.before.clipboard) => Called("set_contents")
        /\ (hist.browser # last.before.browser) => Called("webbrowser::open")

\* the URL could not be opened and the clipboard could not be written: both
\* errors are printed and the cursor is set
C24_Witness ==
    /\ last.op = "handle_output"
    /\ last.calls = <<"webbrowser::open", "set_contents", "set_cursor">>
    /\ last.errors = <<"Failed to open url", "Copy/Cut error">>
    /\ hist.cursor = "MouseCursor::Hand"
    /\ last.before.cursor # "MouseCursor::Hand"
    /\ hist.clipboard = last.before.clipboard

(***************************************************************************)
(* C25.  As stated: with debug_regions on, a reserve_space call paints the *)
(* marker rectangle, the left and right marks exactly when the width asked *)
(* for exceeds the available width, and the top and bottom marks exactly   *)
(* when the height asked for exceeds the available height; with the flag   *)
(* off it paints nothing.  Read on the root Region while reservations are  *)
(* all that has been called.                                               *)
(***************************************************************************)
RECURSIVE MarksAsStated(_, _)
MarksAsStated(log, k) ==
    IF k = 0 THEN <<>>
    ELSE MarksAsStated(log, k - 1)
         \o DebugCmds(log[k].rect,
                      log[k].child_size[1] > log[k].available[1],
                      log[k].child_size[2] > log[k].available[2])

C25_MarksFollowWidthAndHeight ==
    (Len(stack) = 1 /\ phase = "layout" /\ ops = Len(Top.log[1])) =>
        graphics["Background"] =
            IF style.debug_regions
            THEN Painted([l \in Layers |-> <<>>], Top.regions[1],
                         MarksAsStated(Top.log[1], Len(Top.log[1])))["Background"]
            ELSE <<>>

CustomChildIs(i, size) ==
    LET c == stack'[Len(stack')].regions[1]
        r == Top.regions[i]
        a == VSub(VMax(r.desired_rect.max, r.child_bounds.max), r.cursor)
    IN  /\ Len(stack') = Len(stack) + 1
        /\ SubSeq(stack', 1, Len(stack)) = stack
        /\ Len(stack'[Len(stack')].regions) = 1
        /\ c.desired_rect.min = r.cursor
        /\ width(c.desired_rect) = Min2(size[1], a[1])
        /\ height(c.desired_rect) = Min2(size[2], a[2])
        /\ (size[1] >= a[1] /\ size[2] >= a[2]) => c.desired_rect.max = bottom_right(r)
        /\ c.cursor = r.cursor
        /\ c.child_bounds = from_min_size(r.cursor, <<0, 0>>)
        /\ c.dir = r.dir /\ c.align = r.align /\ c.id = r.id

CustomBegins ==
    last'.op = "add_custom_contents" =>
        \A i \in 1..Len(Top.regions), size \in CustomSizes :
            AddCustomContents(i, size) => CustomChildIs(i, size)

C27_ReservesBoundingSize ==
    JustReturned("add_custom_contents") =>
        \E c \in {last.popped[1]} :
            /\ Len(last.popped) = 1
            /\ Entry.size = VSub(c.child_bounds.max, c.desired_rect.min)
            /\ Entry.child_size = round_vec_to_pixels(Entry.size)
            /\ VSub(Entry.rect.max, Entry.rect.min) = Entry.child_size
            /\ c.child_bounds.max = c.desired_rect.min => Entry.rect.max = Entry.rect.min
            /\ RegionAt(Caller).cursor = Entry.after

C27_CustomContents == [][CustomBegins /\ OneReservation]_vars /\ []C27_ReservesBoundingSize

\* a child that was given the 20 by 10 it asked for and whose contents are
\* larger: the parent reserves the size of the contents
C27_Witness ==
    /\ JustReturned("add_custom_contents")
    /\ VSub(last.popped[1].desired_rect.max, last.popped[1].desired_rect.min) = <<Pt(20), Pt(10)>>
    /\ Entry.size = bounding_size(last.popped[1])
    /\ Entry.size[1] > Pt(20) /\ Entry.size[2] > Pt(10)
    /\ VSub(Entry.rect.max, Entry.rect.min) = Entry.size

(***************************************************************************)
(* C28.  The Region that left_column, centered_column and right_column     *)
(* return, and what making it and reserving in it does to the Region it    *)
(* was made from.                                                          *)
(***************************************************************************)
ColumnChildIs(i, column_position, w) ==
    LET c == stack'[Len(stack')].regions[1]
        r == Top.regions[i]
        a == VSub(VMax(r.desired_rect.max, r.child_bounds.max), r.cursor)
    IN  /\ Len(stack') = Len(stack) + 1
        /\ Len(stack'[Len(stack')].regions) = 1
        /\ c.desired_rect.min[2] = r.cursor[2]
        /\ CASE column_position = "Min"    -> c.desired_rect.min[1] = r.cursor[1]
             [] column_position = "Center" -> 2 * (c.desired_rect.min[1] - r.cursor[1]) = a[1] - w
             [] column_position = "Max"    -> c.desired_rect.min[1] - r.cursor[1] = a[1] - w
        /\ VSub(c.desired_rect.max, c.desired_rect.min) = <<w, a[2]>>
        /\ c.cursor = c.desired_rect.min
        /\ c.child_bounds = from_min_size(c.desired_rect.min, <<0, 0>>)

\* the Regions below the top frame, with their logs
Under(stk) == SubSeq(stk, 1, Len(stack) - 1)

ColumnBegins ==
    last'.op = "column" =>
        /\ \A i \in 1..Len(Top.regions), column_position \in Aligns, w \in ColumnWidths :
              Column(i, column_position, w) => ColumnChildIs(i, column_position, w)
        /\ SubSeq(stack', 1, Len(stack)) = stack
        /\ graphics' = graphics

\* a step that reserves in the Region that column returned
ColumnReserves ==
    /\ Top.kind = "column"
    /\ Len(stack') = Len(stack)
    /\ last'.op = "reserve_space"

\* C28, as stated: making the column and reserving in it leave the cursor,
\* the bounding box and the paint list of the Region it was made from as
\* they were.
C28_ParentUntouched ==
    [][ColumnBegins /\ (ColumnReserves => (Under(stack') = Under(stack) /\ graphics' = graphics))]_vars

\* the paint commands of layer l that the step adds
Added(l) == SubSeq(graphics'[l], Len(graphics[l]) + 1, Len(graphics'[l]))

\* C28, amended: left_column, centered_column and right_column(width) only
\* make a child Region, at the parent's cursor shifted horizontally by 0,
\* (a - width)/2 or a - width for the parent's available width a, of size
\* (width, available height); the call changes neither the parent nor the
\* paint lists.  A reservation made in the column leaves the parent's
\* cursor and bounding box as they were; it adds nothing to the paint lists
\* when debug_regions is off, and when it is on it appends the debug marks
\* of the reservation, with the column's clip rect, to the list of the
\* layer that the column shares with the parent.
ColumnReservesApart ==
    ColumnReserves =>
        /\ Under(stack') = Under(stack)
        /\ \A l \in Layers :
              /\ Len(graphics'[l]) >= Len(graphics[l])
              /\ SubSeq(graphics'[l], 1, Len(graphics[l])) = graphics[l]
              /\ Added(l) # <<>> =>
                    /\ style.debug_regions
                    /\ l = Top.regions[1].layer
                    /\ \A k \in DOMAIN Added(l) : Added(l)[k][1] = Top.regions[1].clip_rect
                    /\ Added(l)[1][2] = PaintRect(last'.rect)
        /\ style.debug_regions =>
              Added(Top.regions[1].layer) # <<>>

\* dropping the column leaves the parent as it is
ColumnDropped ==
    last'.op = "drop" => (stack' = Under(stack) /\ graphics' = graphics)

C28_Column == [][ColumnBegins /\ ColumnReservesApart /\ ColumnDropped]_vars

\* a right-aligned column, with debug_regions on, has reserved twice and
\* painted its marks; the Region it was made from has reserved nothing
C28_Witness ==
    /\ Len(stack) = 2 /\ Top.kind = "column"
    /\ last.op = "reserve_space"
    /\ style.debug_regions
    /\ Len(Top.log[1]) = 2
    /\ Top.regions[1].desired_rect.min[1] - Parent.cursor[1] = available_width(Parent) - Pt(24)
    /\ Top.regions[1].desired_rect.min[1] > Parent.cursor[1]
    /\ Len(Below.log[1]) = 0
    /\ Parent.cursor = Parent.desired_rect.min
    /\ Len(graphics["Background"]) >= 2

(***************************************************************************)
(* C29.  insert_paint_cmd(pos, cmd) with pos no greater than the length of *)
(* the Region's layer puts cmd, with the Region's clip rect, at index pos  *)
(* of that layer (counted from 0), makes the list one longer, keeps the    *)
(* entries before pos where they were and moves those from pos on one      *)
(* place later; the other layers are unchanged.                            *)
(***************************************************************************)
InsertedAt(p, pos, cmd) ==
    LET l   == RegionAt(p).layer
        old == graphics[l]
        new == graphics'[l]
    IN  /\ Len(new) = Len(old) + 1
        /\ new[pos + 1] = <<RegionAt(p).clip_rect, cmd>>
        /\ \A k \in 1..pos : new[k] = old[k]
        /\ \A k \in (pos + 1)..Len(old) : new[k + 1] = old[k]
        /\ \A m \in Layers \ {l} : graphics'[m] = graphics[m]

Inserts ==
    last'.op = "insert_paint_cmd" =>
        \A p \in Live, pos \in 0..MaxOps :
            InsertPaintCmd(p, pos, PaintRect(SubRect)) =>
                /\ pos <= Len(graphics[RegionAt(p).layer])
                /\ InsertedAt(p, pos, PaintRect(SubRect))

C29_InsertPlaces == [][Inserts]_vars

\* a command inserted between two commands of the Background layer, by the
\* child Region, while the Popup layer holds nothing
C29_Witness ==
    /\ last.op = "insert_paint_cmd"
    /\ Len(graphics["Background"]) = 3
    /\ graphics["Background"][2] = <<RegionAt(<<2, 1>>).clip_rect, PaintRect(SubRect)>>
    /\ graphics["Background"][1][2] # PaintRect(SubRect)
    /\ graphics["Background"][3][2] # PaintRect(SubRect)
    /\ graphics["Popup"] = <<>>

====
